---- MODULE Spec2Model ----
(***************************************************************************)
(* A model of the Balance valuation library: market curves, the curve      *)
(* bootstrap, the product catalogue's pricing functions and the portfolio  *)
(* valuation engine with its risk metrics.                                 *)
(*                                                                         *)
(* Numbers.  The library computes in Python floats.  The model computes in *)
(* exact rationals <<num, den>> (den > 0, lowest terms), so that sums,     *)
(* products and quotients are those of the real numbers the floats stand   *)
(* for.  Rates that enter an exponential are expressed in units of ln 2    *)
(* per year, so that exp(-r*t) is the rational 2^(-r*t) whenever r*t is an *)
(* integer; the curves and time grids below keep r*t integral wherever a   *)
(* discount factor's value (not only its order) is needed.                 *)
(***************************************************************************)
EXTENDS Integers, Sequences, FiniteSets, TLC

VARIABLES
    trade,        \* the product last handed to present_value
    tradeScn,     \* the scenario dict it was valued under
    tradePV,      \* what present_value returned or raised
    mirrorPV,     \* the same trade with its pay/receive side flipped, same scenario
    products,     \* ValuationEngine.products
    result,       \* the ValuationResult of the last engine call
    scenariosIn,  \* the scenario list of the last engine call
    contributions,\* second component of value_with_contributions
    grouped,      \* second component of value_with_grouped_contributions
    risk,         \* the last pvat_risk / expected_shortfall call and its outcome
    curveIn,      \* the arrays handed to a curve constructor
    curve,        \* the constructed curve object, or the error raised
    dfProbe,      \* two times t1 <= t2 at which discount_factor was evaluated
    quotes,       \* deposits and swaps handed to bootstrap_zero_curve
    boot,         \* the bootstrap's progress: dfs, position, error, consumed grid
    bootReversed, \* the outcome of the same call with both quote lists reversed
    bondCall,     \* the last call on a callable or corporate bond and its outcome
    sensCall,     \* the last DeterministicSensitivityEngine.compute call and its outcome
    csaCall,      \* the last CSADiscountingEngine.value call and its outcome
    genCall,      \* the last scenario generator call and its outcome
    solver,       \* a yield or spread solver call in progress: bracket, position, result
    hwCall,       \* the last Hull-White simulation or Monte Carlo generator call
    mortCall,     \* the last mortgage schedule computed and its outcome
    swapCall      \* the last cross-currency swap leg breakdown and its outcome

vars == <<trade, tradeScn, tradePV, mirrorPV, products, result, scenariosIn,
          contributions, grouped, risk, curveIn, curve, dfProbe, quotes, boot,
          bootReversed, bondCall, sensCall, csaCall, genCall, solver, hwCall,
          mortCall, swapCall>>

productVars == <<trade, tradeScn, tradePV, mirrorPV>>
engineVars == <<products, result, scenariosIn, contributions, grouped, risk>>
curveVars == <<curveIn, curve, dfProbe>>
bootVars == <<quotes, boot, bootReversed>>
lateVars == <<solver, hwCall, mortCall, swapCall>>
callVars == <<bondCall, sensCall, csaCall, genCall, lateVars>>

-----------------------------------------------------------------------------
(* Exact rational arithmetic.  Each operation is a function applied to   *)
(* its evaluated arguments, wrapped in an operator of the same meaning.    *)

Abs(x) == IF x < 0 THEN -x ELSE x

Q == Int \X Int

GcdF[a \in Nat, b \in Nat] == IF b = 0 THEN a ELSE GcdF[b, a % b]

RatF[n \in Int, d \in Int] ==
    LET g == GcdF[Abs(n), Abs(d)]
        s == IF d < 0 THEN -1 ELSE 1
    IN  <<(s * n) \div g, (s * d) \div g>>
Rat(n, d) == RatF[n, d]

RInt(n) == <<n, 1>>
RZero == <<0, 1>>
ROne == <<1, 1>>

RAddF[a \in Q, b \in Q] ==
    LET g == GcdF[a[2], b[2]]
    IN  RatF[a[1] * (b[2] \div g) + b[1] * (a[2] \div g), (a[2] \div g) * b[2]]
RAdd(a, b) == RAddF[a, b]

RNegF[a \in Q] == <<-a[1], a[2]>>
RNeg(a) == RNegF[a]
RSub(a, b) == RAddF[a, RNegF[b]]

RMulF[a \in Q, b \in Q] ==
    LET g == GcdF[Abs(a[1]), b[2]]
        h == GcdF[Abs(b[1]), a[2]]
    IN  RatF[(a[1] \div g) * (b[1] \div h), (a[2] \div h) * (b[2] \div g)]
RMul(a, b) == RMulF[a, b]

\* a / b for b # 0 (the callers guard the division as the code does).
RDivF[a \in Q, b \in Q] == RMulF[a, IF b[1] < 0 THEN <<-b[2], -b[1]>> ELSE <<b[2], b[1]>>]
RDiv(a, b) == RDivF[a, b]

RLtF[a \in Q, b \in Q] == a[1] * b[2] < b[1] * a[2]
RLt(a, b) == RLtF[a, b]
RLe(a, b) == ~RLtF[b, a]
RMaxF[a \in Q, b \in Q] == IF RLtF[a, b] THEN b ELSE a
RMax(a, b) == RMaxF[a, b]

RFloor(a) == a[1] \div a[2]

\* Python's sum() / a running "total += x": left to right, starting from 0.
RSumF[s \in Seq(Q)] ==
    IF s = <<>> THEN RZero ELSE RAddF[RSumF[SubSeq(s, 1, Len(s) - 1)], s[Len(s)]]
RSum(s) == RSumF[s]

Pow2F[n \in Nat] == IF n = 0 THEN 1 ELSE 2 * Pow2F[n - 1]

NoneR == <<>>

\* exp(-x) for x in units of ln 2: 2^(-x), a rational when x is an integer
\* (and not a value of this model otherwise: only its exponent is).
ExpNegF[x \in Q] ==
    IF x[2] # 1 THEN NoneR
    ELSE IF x[1] >= 0 THEN <<1, Pow2F[x[1]]>> ELSE <<Pow2F[-x[1]], 1>>
ExpNeg(x) == ExpNegF[x]

\* Python's round(): to the nearest integer, ties to the even one.
PyRoundF[x \in Q] ==
    LET f == x[1] \div x[2]
        twice == RAddF[RMulF[<<2, 1>>, x], <<-(2 * f), 1>>]   \* 2 * fractional part
    IN  IF RLtF[twice, ROne] THEN f
        ELSE IF RLtF[ROne, twice] THEN f + 1
        ELSE IF f % 2 = 0 THEN f ELSE f + 1
PyRound(x) == PyRoundF[x]

\* A call's outcome: a value, or the exception it raised.
Ok(v) == [err |-> "none", val |-> v]
Raise(e) == [err |-> e, val |-> RZero]

NoneObj == [kind |-> "None"]

\* No call made yet.
NoCall == [op |-> "none"]

-----------------------------------------------------------------------------
(* Market curves: models/curve.py, models/market.py.                        *)
(* A curve object is [kind, tenors, values]; values holds zero_rates,      *)
(* forward_rates, fx_forwards or hazard_rates according to kind.           *)

CurveKinds == {"zero_curve", "forward_curve", "fx_curve", "hazard_curve"}

\* An array argument: its number of dimensions and, flattened, its entries.
Arr(ndim, data) == [ndim |-> ndim, data |-> data]

\* np.any(np.diff(tenors) <= 0)
AnyDiffNonPositive(ts) == \E i \in 1..(Len(ts) - 1) : RLe(ts[i + 1], ts[i])

\* __post_init__ of the four curve dataclasses (the same four checks in each).
post_init(kind, tenors, values) ==
    IF tenors.ndim # 1 \/ values.ndim # 1 THEN "ValueError"
    ELSE IF Len(tenors.data) # Len(values.data) THEN "ValueError"
    ELSE IF Len(tenors.data) < 2 THEN "ValueError"
    ELSE IF AnyDiffNonPositive(tenors.data) THEN "ValueError"
    ELSE "none"

\* The dataclass constructor: the object exists iff __post_init__ raised nothing.
NewCurve(kind, tenors, values) ==
    IF post_init(kind, tenors, values) = "none"
    THEN [err |-> "none",
          obj |-> [kind |-> kind, tenors |-> tenors.data, values |-> values.data]]
    ELSE [err |-> post_init(kind, tenors, values), obj |-> NoneObj]

\* np.interp(t, xs, ys) for xs[1] <= t <= xs[Len(xs)]: linear between the
\* bracketing nodes.
np_interp(t, xs, ys) ==
    LET i == CHOOSE k \in 1..(Len(xs) - 1) :
                 /\ RLe(xs[k], t)
                 /\ RLe(t, xs[k + 1])
                 /\ \A j \in 1..(k - 1) : ~(RLe(xs[j], t) /\ RLe(t, xs[j + 1]))
        slope == RDiv(RSub(ys[i + 1], ys[i]), RSub(xs[i + 1], xs[i]))
    IN  RAdd(RMul(slope, RSub(t, xs[i])), ys[i])

\* An interpolation that falls back to the first node's rate beyond the last tenor.
interp_zero_rate_FirstBeyond(c, t) ==
    IF RLe(t, RZero) THEN c.values[1]
    ELSE IF RLe(t, c.tenors[1]) THEN c.values[1]
    ELSE IF RLe(c.tenors[Len(c.tenors)], t) THEN c.values[1]
    ELSE np_interp(t, c.tenors, c.values)

\* DeterministicZeroCurve._interp_zero_rate; fx_forward, hazard_rate and the
\* forward curve's forward_rate are the same four branches on their arrays.
interp_zero_rate(c, t) ==
    IF RLe(t, RZero) THEN c.values[1]
    ELSE IF RLe(t, c.tenors[1]) THEN c.values[1]
    ELSE IF RLe(c.tenors[Len(c.tenors)], t) THEN c.values[Len(c.values)]
    ELSE np_interp(t, c.tenors, c.values)

fx_forward(c, t) == interp_zero_rate(c, t)
hazard_rate(c, t) == interp_zero_rate(c, t)

\* -log2 of DeterministicZeroCurve.discount_factor(t): the exponent r * t
\* of exp(-r * t), the rate being in units of ln 2.
discount_exponent(c, t) == RMul(interp_zero_rate(c, t), t)

\* DeterministicZeroCurve.discount_factor
discount_factor(c, t) ==
    IF RLt(t, RZero) THEN Raise("ValueError")
    ELSE [err |-> "none", val |-> ExpNeg(discount_exponent(c, t)),
          neglog |-> discount_exponent(c, t)]

\* DeterministicHazardCurve.survival_probability
survival_probability(c, t) ==
    IF RLt(t, RZero) THEN Raise("ValueError")
    ELSE IF t = RZero THEN Ok(ROne)
    ELSE Ok(ExpNeg(RMul(hazard_rate(c, t), t)))

\* InterestRateModel.forward_rate
forward_rate(m, t0, t1) ==
    IF RLt(t0, RZero) \/ RLe(t1, t0) THEN Raise("ValueError")
    ELSE LET df0 == discount_factor(m, t0).val
             df1 == discount_factor(m, t1).val
         IN  IF RLe(df1, RZero) \/ RLe(df0, RZero) THEN Raise("ValueError")
             ELSE Ok(RDiv(RSub(RDiv(df0, df1), ROne), RSub(t1, t0)))

\* isinstance(x, InterestRateModel) / DeterministicFXCurve / DeterministicHazardCurve
IsRateModel(x) == x.kind = "zero_curve"
IsFXCurve(x) == x.kind = "fx_curve"
IsHazardCurve(x) == x.kind = "hazard_curve"

-----------------------------------------------------------------------------
(* Curve construction and discounting as a state machine.                  *)

MaxNodes == 2      \* longest array handed to a constructor
MaxTenor == 2      \* largest tenor (years)
MaxRate == 2       \* largest node value (units of ln 2 per year)

RECURSIVE SeqsUpTo(_, _)
SeqsUpTo(S, n) ==
    IF n = 0 THEN {<<>>}
    ELSE LET shorter == SeqsUpTo(S, n - 1)
         IN  shorter \cup {Append(q, x) : q \in {r \in shorter : Len(r) = n - 1}, x \in S}

TenorValues == {RInt(k) : k \in (-1)..MaxTenor}
NodeValues == {RInt(k) : k \in 0..MaxRate}
ProbeTimes == {Rat(k, 2) : k \in (-1)..(2 * MaxTenor + 2)}

ArrayInputs(S) == {Arr(1, q) : q \in SeqsUpTo(S, MaxNodes)}
                      \cup {Arr(2, <<x, x>>) : x \in S} \cup {Arr(0, <<x>>) : x \in S}

NoProbe == [done |-> FALSE]

\* DeterministicZeroCurve(...), DeterministicForwardCurve(...),
\* DeterministicFXCurve(...), DeterministicHazardCurve(...)
Construct(kind, tenors, values) ==
    /\ curve.err = "unset"
    /\ curveIn' = [kind |-> kind, tenors |-> tenors, values |-> values]
    /\ curve' = NewCurve(kind, tenors, values)
    /\ dfProbe' = NoProbe

\* curve.discount_factor(t1) and curve.discount_factor(t2) on the zero curve built.
DiscountFactor(t1, t2) ==
    /\ curve.err = "none"
    /\ ~dfProbe.done
    /\ curve.obj.kind = "zero_curve"
    /\ RLe(t1, t2)
    /\ dfProbe' = [done |-> TRUE, t1 |-> t1, t2 |-> t2,
                   df1 |-> discount_factor(curve.obj, t1),
                   df2 |-> discount_factor(curve.obj, t2)]
    /\ UNCHANGED <<curveIn, curve>>

NextCurve ==
    \/ /\ curve.err = "unset"
       /\ \E kind \in CurveKinds, ta \in ArrayInputs(TenorValues), va \in ArrayInputs(NodeValues) :
              Construct(kind, ta, va) /\ UNCHANGED <<productVars, engineVars, bootVars, callVars>>
    \/ /\ curve.err = "none"
       /\ \E t1 \in ProbeTimes, t2 \in ProbeTimes :
              DiscountFactor(t1, t2) /\ UNCHANGED <<productVars, engineVars, bootVars, callVars>>

-----------------------------------------------------------------------------
(* Products: products/bond.py, products/swap.py, products/derivatives.py.   *)
(* A scenario dict is a record of its keys; an absent key reads as None,   *)
(* which is what scenario.get(key) returns for it.                         *)

Cashflow(t, a) == [time |-> t, amount |-> a]

\* The first exception a left-to-right evaluation of rs meets, or "none".
FirstErr(rs) ==
    IF \A i \in 1..Len(rs) : rs[i].err = "none" THEN "none"
    ELSE rs[CHOOSE i \in 1..Len(rs) :
                /\ rs[i].err # "none"
                /\ \A j \in 1..(i - 1) : rs[j].err = "none"].err

\* sum(cf.amount * model.discount_factor(cf.time) for cf in cfs), cfs being the
\* outcome [err, cfs] of the call that builds the cashflows.
DiscountedSum(model, flows) ==
    IF flows.err # "none" THEN Raise(flows.err)
    ELSE LET dfs == [i \in 1..Len(flows.cfs) |-> discount_factor(model, flows.cfs[i].time)]
         IN  IF FirstErr(dfs) # "none" THEN Raise(FirstErr(dfs))
             ELSE Ok(RSum([i \in 1..Len(flows.cfs) |->
                              RMul(flows.cfs[i].amount, dfs[i].val)]))

Flows(cfs) == [err |-> "none", cfs |-> cfs]
NoFlows(e) == [err |-> e, cfs |-> <<>>]

\* 1.0 / frequency
PeriodLength(frequency) == Rat(1, frequency)

\* int(round(maturity_years * frequency))
PeriodCount(maturity_years, frequency) == PyRound(RMul(maturity_years, RInt(frequency)))

\* FixedRateBond.get_cashflows
FixedRateBond_get_cashflows(p) ==
    LET periods == PeriodCount(p.maturity_years, p.coupon_frequency)
        dt == PeriodLength(p.coupon_frequency)
        coupon == RMul(RMul(p.notional, p.coupon_rate), dt)
    IN  IF periods <= 0 THEN NoFlows("ValueError")
        ELSE Flows([i \in 1..periods |->
                      Cashflow(RMul(RInt(i), dt),
                               IF i = periods THEN RAdd(coupon, p.notional) ELSE coupon)])

\* FixedRateBond.present_value
FixedRateBond_present_value(p, scenario) ==
    IF ~IsRateModel(scenario.model) THEN Raise("TypeError")
    ELSE DiscountedSum(scenario.model, FixedRateBond_get_cashflows(p))

\* FixedFloatSwap.fixed_leg_cashflows
FixedFloatSwap_fixed_leg_cashflows(p) ==
    LET n_fixed == PeriodCount(p.maturity_years, p.fixed_frequency)
        dt == PeriodLength(p.fixed_frequency)
        coupon == RMul(RMul(p.notional, p.fixed_rate), dt)
    IN  IF n_fixed <= 0 THEN NoFlows("ValueError")
        ELSE Flows([i \in 1..n_fixed |-> Cashflow(RMul(RInt(i), dt), coupon)])

\* FixedFloatSwap.float_leg_cashflows
FixedFloatSwap_float_leg_cashflows(p, model) ==
    LET n_float == PeriodCount(p.maturity_years, p.float_frequency)
        dt == PeriodLength(p.float_frequency)
        fwd == [i \in 1..n_float |->
                   forward_rate(model, RMul(RInt(i - 1), dt), RMul(RInt(i), dt))]
    IN  IF n_float <= 0 THEN NoFlows("ValueError")
        ELSE IF FirstErr(fwd) # "none" THEN NoFlows(FirstErr(fwd))
        ELSE Flows([i \in 1..n_float |->
                      Cashflow(RMul(RInt(i), dt), RMul(RMul(p.notional, fwd[i].val), dt))])

\* A swap valuation blind to its side: always float minus fixed.
FixedFloatSwap_present_value_OneSided(p, scenario) ==
    IF ~IsRateModel(scenario.model) THEN Raise("TypeError")
    ELSE LET pv_fixed == DiscountedSum(scenario.model, FixedFloatSwap_fixed_leg_cashflows(p))
             pv_float == DiscountedSum(scenario.model,
                                       FixedFloatSwap_float_leg_cashflows(p, scenario.model))
         IN  IF pv_fixed.err # "none" THEN pv_fixed
             ELSE IF pv_float.err # "none" THEN pv_float
             ELSE Ok(RSub(pv_float.val, pv_fixed.val))

\* FixedFloatSwap.present_value
FixedFloatSwap_present_value(p, scenario) ==
    IF ~IsRateModel(scenario.model) THEN Raise("TypeError")
    ELSE LET pv_fixed == DiscountedSum(scenario.model, FixedFloatSwap_fixed_leg_cashflows(p))
             pv_float == DiscountedSum(scenario.model,
                                       FixedFloatSwap_float_leg_cashflows(p, scenario.model))
         IN  IF pv_fixed.err # "none" THEN pv_fixed
             ELSE IF pv_float.err # "none" THEN pv_float
             ELSE IF p.pay_fixed THEN Ok(RSub(pv_float.val, pv_fixed.val))
             ELSE Ok(RSub(pv_fixed.val, pv_float.val))

\* FXForward.get_cashflows
FXForward_get_cashflows(p, scenario) ==
    IF ~IsRateModel(scenario.model) THEN NoFlows("TypeError")
    ELSE IF ~IsFXCurve(scenario.fx_curve) THEN NoFlows("TypeError")
    ELSE LET sign == IF p.pay_foreign_receive_domestic THEN ROne ELSE RNeg(ROne)
             payoff == RMul(RMul(sign, p.notional_foreign),
                            RSub(fx_forward(scenario.fx_curve, p.maturity_years), p.strike))
         IN  Flows(<<Cashflow(p.maturity_years, payoff)>>)

\* FXForward.present_value
FXForward_present_value(p, scenario) ==
    IF ~IsRateModel(scenario.model) THEN Raise("TypeError")
    ELSE DiscountedSum(scenario.model, FXForward_get_cashflows(p, scenario))

\* max(x, 1e-12).  Every positive number of this model exceeds 1e-12 (its
\* denominators stay below 2^31), so the floor replaces exactly the x <= 0; the
\* model's inputs keep those guarded quantities (discount factors, FX levels)
\* positive, and FloorStandIn is never the value of a run.
FloorStandIn == <<1, 1000000000>>
MaxFloorF[x \in Q] == IF x[1] >= 1 THEN x ELSE FloorStandIn
MaxFloor(x) == MaxFloorF[x]

\* FXSwap._implied_far_rate_from_curves
FXSwap_implied_far_rate_from_curves(p, scenario) ==
    IF ~IsRateModel(scenario.model) THEN Raise("TypeError")
    ELSE IF ~IsRateModel(scenario.foreign_model) THEN Raise("TypeError")
    ELSE IF RLe(p.far_maturity_years, p.near_maturity_years) THEN Raise("ValueError")
    ELSE IF RLe(p.far_maturity_years, RZero) THEN Ok(p.near_rate)
    ELSE LET df_d_near == discount_factor(scenario.model, p.near_maturity_years)
             df_d_far == discount_factor(scenario.model, p.far_maturity_years)
             df_f_near == discount_factor(scenario.foreign_model, p.near_maturity_years)
             df_f_far == discount_factor(scenario.foreign_model, p.far_maturity_years)
             errs == FirstErr(<<df_d_near, df_d_far, df_f_near, df_f_far>>)
         IN  IF errs # "none" THEN Raise(errs)
             ELSE Ok(RDiv(RMul(p.near_rate, RDiv(df_f_far.val, MaxFloor(df_f_near.val))),
                          MaxFloor(RDiv(df_d_far.val, MaxFloor(df_d_near.val)))))

\* FXSwap.leg_cashflows()["net_cashflows"], which is FXSwap.get_cashflows
FXSwap_get_cashflows(p, scenario) ==
    IF RLe(p.far_maturity_years, p.near_maturity_years) THEN NoFlows("ValueError")
    ELSE LET sign == IF p.pay_foreign_receive_domestic THEN ROne ELSE RNeg(ROne)
             implied == IF p.far_rate # NoneR THEN Ok(p.far_rate)
                        ELSE FXSwap_implied_far_rate_from_curves(p, scenario)
         IN  IF implied.err # "none" THEN NoFlows(implied.err)
             ELSE Flows(<<Cashflow(p.near_maturity_years,
                                   RMul(RMul(sign, p.notional_foreign), p.near_rate)),
                          Cashflow(p.far_maturity_years,
                                   RMul(RMul(RNeg(sign), p.notional_foreign), implied.val))>>)

\* FXSwap.present_value
FXSwap_present_value(p, scenario) ==
    IF ~IsRateModel(scenario.model) THEN Raise("TypeError")
    ELSE DiscountedSum(scenario.model, FXSwap_get_cashflows(p, scenario))

\* CreditDefaultSwap.leg_present_values(as_cashflows=False): the two leg PVs.
CreditDefaultSwap_leg_present_values(p, scenario) ==
    IF ~IsRateModel(scenario.model) THEN [err |-> "TypeError"]
    ELSE IF ~IsHazardCurve(scenario.hazard_curve) THEN [err |-> "TypeError"]
    ELSE LET dt == PeriodLength(p.payment_frequency)
             n == PeriodCount(p.maturity_years, p.payment_frequency)
             sign == IF p.protection_buyer THEN ROne ELSE RNeg(ROne)
             spread == RDiv(p.spread_bps, RInt(10000))
             t(i) == RMul(RInt(i), dt)
             survival(i) == survival_probability(scenario.hazard_curve, t(i)).val
             before(i) == survival_probability(scenario.hazard_curve, RSub(t(i), dt)).val
             default_prob(i) == RMax(RZero, RSub(before(i), survival(i)))
             premium_amount(i) ==
                 RMul(RMul(RMul(RMul(sign, p.notional), spread), dt), survival(i))
             protection_amount(i) ==
                 RMul(RMul(RMul(sign, p.notional), RSub(ROne, p.recovery_rate)),
                      default_prob(i))
             df(i) == discount_factor(scenario.model, t(i)).val
         IN  [err |-> "none",
              premium_leg_pv |-> RSum([i \in 1..n |-> RMul(premium_amount(i), df(i))]),
              protection_leg_pv |-> RSum([i \in 1..n |-> RMul(protection_amount(i), df(i))])]

\* CreditDefaultSwap.present_value
CreditDefaultSwap_present_value(p, scenario) ==
    IF ~IsRateModel(scenario.model) THEN Raise("TypeError")
    ELSE LET legs == CreditDefaultSwap_leg_present_values(p, scenario)
         IN  IF legs.err # "none" THEN Raise(legs.err)
             ELSE Ok(RSub(legs.protection_leg_pv, legs.premium_leg_pv))

\* CrossCurrencySwap._leg_cashflows
CrossCurrencySwap_leg_cashflows(p, model, notional, frequency, fixed_rate, spread, sign, fx_curve, convert_foreign, mark_to_market) ==
    LET n == PeriodCount(p.maturity_years, frequency)
        dt == PeriodLength(frequency)
        t0(i) == RMul(RInt(i - 1), dt)
        t1(i) == RMul(RInt(i), dt)
        effective_notional(i) ==
            IF mark_to_market /\ convert_foreign
            THEN RDiv(p.domestic_notional, MaxFloor(fx_forward(fx_curve, t0(i))))
            ELSE notional
        rate == [i \in 1..n |-> IF fixed_rate # NoneR THEN Ok(fixed_rate)
                                ELSE forward_rate(model, t0(i), t1(i))]
        amount(i) == RMul(RMul(RMul(sign, effective_notional(i)),
                               RAdd(rate[i].val, spread)), dt)
    IN  IF FirstErr(rate) # "none" THEN NoFlows(FirstErr(rate))
        ELSE Flows([i \in 1..n |->
                      Cashflow(t1(i), IF convert_foreign
                                      THEN RMul(amount(i), fx_forward(fx_curve, t1(i)))
                                      ELSE amount(i))])

\* A foreign notional that no reset changes.
CrossCurrencySwap_reset_notional_Unchanged(p, fx_curve, start_notional, i) == start_notional

\* CrossCurrencySwap.leg_cashflows: the foreign notional in force after i resets.
CrossCurrencySwap_reset_notional(p, fx_curve, start_notional, i) ==
    IF i = 0 THEN start_notional
    ELSE RDiv(p.domestic_notional,
              MaxFloor(fx_forward(fx_curve, RMul(RInt(i), PeriodLength(p.foreign_frequency)))))

\* The dict leg_cashflows returns, or the exception it raises.
LegDict(notional_exchange, domestic_leg, foreign_leg, reset_exchange) ==
    [err |-> "none",
     notional_exchange_cashflows |-> notional_exchange,
     domestic_leg_cashflows |-> domestic_leg,
     foreign_leg_cashflows |-> foreign_leg,
     reset_exchange_cashflows |-> reset_exchange,
     net_cashflows |-> notional_exchange \o domestic_leg \o foreign_leg \o reset_exchange]
NoLegs(e) == [err |-> e]

\* CrossCurrencySwap.leg_cashflows
CrossCurrencySwap_leg_dict(p, scenario) ==
    IF ~IsRateModel(scenario.model) THEN NoLegs("TypeError")
    ELSE IF ~IsRateModel(scenario.foreign_model) THEN NoLegs("TypeError")
    ELSE IF ~IsFXCurve(scenario.fx_curve) THEN NoLegs("TypeError")
    ELSE
    LET fx == scenario.fx_curve
        sign == IF p.pay_domestic_receive_foreign THEN RNeg(ROne) ELSE ROne
        start_foreign_notional ==
            IF p.mark_to_market
            THEN RDiv(p.domestic_notional, MaxFloor(fx_forward(fx, RZero)))
            ELSE p.foreign_notional
        opening ==
            IF p.exchange_notionals
            THEN <<Cashflow(RZero, RMul(sign, p.domestic_notional)),
                   Cashflow(RZero, RMul(RMul(RNeg(sign), start_foreign_notional),
                                        fx_forward(fx, RZero)))>>
            ELSE <<>>
        domestic_leg ==
            CrossCurrencySwap_leg_cashflows(p, scenario.model, p.domestic_notional,
                p.domestic_frequency, p.domestic_fixed_rate, p.domestic_spread, sign,
                NoneObj, FALSE, FALSE)
        foreign_leg ==
            CrossCurrencySwap_leg_cashflows(p, scenario.foreign_model, start_foreign_notional,
                p.foreign_frequency, p.foreign_fixed_rate, p.foreign_spread, RNeg(sign),
                fx, TRUE, p.mark_to_market)
        resetting == p.mark_to_market /\ p.exchange_notionals
        n_resets == PeriodCount(p.maturity_years, p.foreign_frequency)
        dt == PeriodLength(p.foreign_frequency)
        resets ==
            IF resetting
            THEN [i \in 1..(n_resets - 1) |->
                     LET t == RMul(RInt(i), dt)
                         delta_foreign ==
                             RSub(CrossCurrencySwap_reset_notional(p, fx, start_foreign_notional, i),
                                  CrossCurrencySwap_reset_notional(p, fx, start_foreign_notional, i - 1))
                     IN  Cashflow(t, RMul(RMul(RNeg(sign), delta_foreign), fx_forward(fx, t)))]
            ELSE <<>>
        final_foreign_notional ==
            IF resetting /\ n_resets >= 2
            THEN CrossCurrencySwap_reset_notional(p, fx, start_foreign_notional, n_resets - 1)
            ELSE start_foreign_notional
        closing ==
            IF p.exchange_notionals
            THEN <<Cashflow(p.maturity_years, RMul(RNeg(sign), p.domestic_notional)),
                   Cashflow(p.maturity_years,
                            RMul(RMul(sign, final_foreign_notional),
                                 fx_forward(fx, p.maturity_years)))>>
            ELSE <<>>
    IN  IF domestic_leg.err # "none" THEN NoLegs(domestic_leg.err)
        ELSE IF foreign_leg.err # "none" THEN NoLegs(foreign_leg.err)
        ELSE LegDict(opening \o closing, domestic_leg.cfs, foreign_leg.cfs, resets)

\* CrossCurrencySwap.get_cashflows: leg_cashflows()["net_cashflows"]
CrossCurrencySwap_get_cashflows(p, scenario) ==
    LET legs == CrossCurrencySwap_leg_dict(p, scenario)
    IN  IF legs.err # "none" THEN NoFlows(legs.err) ELSE Flows(legs.net_cashflows)

\* CrossCurrencySwap.present_value
CrossCurrencySwap_present_value(p, scenario) ==
    IF ~IsRateModel(scenario.model) THEN Raise("TypeError")
    ELSE DiscountedSum(scenario.model, CrossCurrencySwap_get_cashflows(p, scenario))

\* Product.present_value: dispatch on the product's class.
present_value(p, scenario) ==
    CASE p.cls = "FixedRateBond" -> FixedRateBond_present_value(p, scenario)
      [] p.cls = "FixedFloatSwap" -> FixedFloatSwap_present_value(p, scenario)
      [] p.cls = "FXForward" -> FXForward_present_value(p, scenario)
      [] p.cls = "FXSwap" -> FXSwap_present_value(p, scenario)
      [] p.cls = "CreditDefaultSwap" -> CreditDefaultSwap_present_value(p, scenario)
      [] p.cls = "CrossCurrencySwap" -> CrossCurrencySwap_present_value(p, scenario)

-----------------------------------------------------------------------------
(* Pricing single trades: the inputs.                                      *)

MaxNotional == 1     \* notionals range over -1..MaxNotional
MaxHalfYears == 3    \* maturities range over -1/2 .. MaxHalfYears/2 years

Half == Rat(1, 2)
Notionals == {RInt(k) : k \in (-1)..MaxNotional}
Maturities == {Rat(k, 2) : k \in (-1)..MaxHalfYears}

ZeroCurve(tenors, rates) == [kind |-> "zero_curve", tenors |-> tenors, values |-> rates]
FlatCurve(r) == ZeroCurve(<<RInt(1), RInt(2)>>, <<RInt(r), RInt(r)>>)
SteepCurve == ZeroCurve(<<Half, RInt(1), Rat(3, 2), RInt(2)>>,
                        <<RInt(0), RInt(2), RInt(2), RInt(4)>>)
FXCurveObj == [kind |-> "fx_curve", tenors |-> <<RInt(1), RInt(2)>>,
               values |-> <<RInt(1), RInt(2)>>]
HazardCurveObj == [kind |-> "hazard_curve", tenors |-> <<RInt(1), RInt(2)>>,
                   values |-> <<RInt(2), RInt(2)>>]

\* A scenario dict with the given objects under its keys.
ScenarioDict(model, foreign_model, fx_curve, hazard_curve) ==
    [model |-> model, foreign_model |-> foreign_model, fx_curve |-> fx_curve,
     hazard_curve |-> hazard_curve]

\* What a pricing call may find under 'model': nothing, an object that is no
\* InterestRateModel, or a zero curve.
ModelSlot == {NoneObj, FXCurveObj, FlatCurve(2), SteepCurve}
ForeignSlot == {NoneObj, FlatCurve(0)}
FXSlot == {NoneObj, FXCurveObj}
HazardSlot == {NoneObj, HazardCurveObj}

Bonds ==
    {[cls |-> "FixedRateBond", notional |-> n, coupon_rate |-> Half,
      maturity_years |-> m, coupon_frequency |-> f] :
        n \in Notionals, m \in Maturities, f \in {1, 2}}

Swaps ==
    {[cls |-> "FixedFloatSwap", notional |-> n, fixed_rate |-> Half,
      maturity_years |-> m, fixed_frequency |-> 1, float_frequency |-> 2,
      pay_fixed |-> side] :
        n \in Notionals, m \in Maturities, side \in BOOLEAN}

FXForwards ==
    {[cls |-> "FXForward", notional_foreign |-> n, strike |-> RInt(1),
      maturity_years |-> m, pay_foreign_receive_domestic |-> side] :
        n \in Notionals, m \in Maturities, side \in BOOLEAN}

FXSwaps ==
    {[cls |-> "FXSwap", notional_foreign |-> n, near_rate |-> RInt(1), far_rate |-> far,
      near_maturity_years |-> t_near, far_maturity_years |-> t_far,
      pay_foreign_receive_domestic |-> side] :
        n \in Notionals, far \in {NoneR, RInt(2)}, t_near \in {RZero, RInt(1)},
        t_far \in Maturities, side \in BOOLEAN}

CDSs ==
    {[cls |-> "CreditDefaultSwap", notional |-> n, spread_bps |-> RInt(5000),
      maturity_years |-> m, payment_frequency |-> f, recovery_rate |-> Half,
      protection_buyer |-> side] :
        n \in Notionals, m \in Maturities, f \in {1, 2}, side \in BOOLEAN}

CCSs ==
    {[cls |-> "CrossCurrencySwap", domestic_notional |-> n, foreign_notional |-> RInt(1),
      maturity_years |-> m, domestic_frequency |-> 1, foreign_frequency |-> 2,
      domestic_fixed_rate |-> fixed, foreign_fixed_rate |-> NoneR,
      domestic_spread |-> RZero, foreign_spread |-> Half,
      pay_domestic_receive_foreign |-> side, exchange_notionals |-> exch,
      mark_to_market |-> mtm] :
        n \in Notionals, m \in Maturities, fixed \in {NoneR, Half},
        side \in BOOLEAN, exch \in BOOLEAN, mtm \in BOOLEAN}

\* The scenarios a trade of each class is priced under: every combination of
\* the keys its pricing code reads.
ScenariosFor(p) ==
    CASE p.cls \in {"FixedRateBond", "FixedFloatSwap"} ->
             {ScenarioDict(m, NoneObj, NoneObj, NoneObj) : m \in ModelSlot}
      [] p.cls = "FXForward" ->
             {ScenarioDict(m, NoneObj, x, NoneObj) : m \in ModelSlot, x \in FXSlot}
      [] p.cls = "FXSwap" ->
             {ScenarioDict(m, f, NoneObj, NoneObj) : m \in ModelSlot, f \in ForeignSlot}
      [] p.cls = "CreditDefaultSwap" ->
             {ScenarioDict(m, NoneObj, NoneObj, h) : m \in ModelSlot, h \in HazardSlot}
      [] p.cls = "CrossCurrencySwap" ->
             {ScenarioDict(m, f, x, NoneObj) : m \in ModelSlot, f \in ForeignSlot, x \in FXSlot}

Trades == Bonds \cup Swaps \cup FXForwards \cup FXSwaps \cup CDSs \cup CCSs

\* The same trade seen from the other counterparty: only the side flag differs.
OtherSide(p) ==
    CASE p.cls = "FixedFloatSwap" -> [p EXCEPT !.pay_fixed = ~@]
      [] p.cls \in {"FXForward", "FXSwap"} -> [p EXCEPT !.pay_foreign_receive_domestic = ~@]
      [] p.cls = "CrossCurrencySwap" -> [p EXCEPT !.pay_domestic_receive_foreign = ~@]
      [] p.cls = "CreditDefaultSwap" -> [p EXCEPT !.protection_buyer = ~@]
      [] OTHER -> p

TwoSided == {"FixedFloatSwap", "FXForward", "FXSwap", "CrossCurrencySwap", "CreditDefaultSwap"}

Unset == [err |-> "unset", val |-> RZero]

\* pv = product.present_value(scenario); for a two-sided trade, other_pv is the
\* counterparty's view: the same trade with its direction flag flipped, priced
\* under the same scenario.
PresentValue(p, scenario, pv, other_pv) ==
    /\ tradePV.err = "unset"
    /\ trade' = p
    /\ tradeScn' = scenario
    /\ tradePV' = pv
    /\ mirrorPV' = IF p.cls \in TwoSided THEN other_pv ELSE Unset
    /\ UNCHANGED <<engineVars, curveVars, bootVars, callVars>>

NextProducts ==
    \E p \in Trades : \E q \in {OtherSide(p)} : \E scenario \in ScenariosFor(p) :
        PresentValue(p, scenario, present_value(p, scenario), present_value(q, scenario))

-----------------------------------------------------------------------------
(* The valuation engine: engine/valuation.py, engine/scenario.py.          *)

\* A Python dict: its keys in insertion order and the value under each.
EmptyDict == [keys |-> <<>>, vals |-> <<>>]
Has(d, k) == \E i \in 1..Len(d.keys) : d.keys[i] = k
IndexOf(d, k) == CHOOSE i \in 1..Len(d.keys) : d.keys[i] = k
Get(d, k) == d.vals[IndexOf(d, k)]
\* d[k] = v
Put(d, k, v) ==
    IF Has(d, k) THEN [d EXCEPT !.vals[IndexOf(d, k)] = v]
    ELSE [keys |-> Append(d.keys, k), vals |-> Append(d.vals, v)]

BaseName == "parallel_shift_+0bps"

\* A key that Scenario.data does not hold.
Missing == [kind |-> "Missing"]
NoData == [model |-> Missing, foreign_model |-> Missing, fx_curve |-> Missing,
           hazard_curve |-> Missing]

\* Scenario(name, model, data)
Scenario(name, model, data) == [name |-> name, model |-> model, data |-> data]

\* data = {"model": scenario.model, "name": scenario.name}; data.update(scenario.data)
scenario_data(scenario) ==
    LET d == scenario.data
        get(v) == IF v = Missing THEN NoneObj ELSE v
    IN  ScenarioDict(IF d.model = Missing THEN scenario.model ELSE d.model,
                     get(d.foreign_model), get(d.fx_curve), get(d.hazard_curve))

\* [product.present_value(data) for product in self.products]
product_pvs(portfolio, data) ==
    [i \in 1..Len(portfolio) |-> present_value(portfolio[i], data)]

\* sum(product.present_value(data) for product in self.products)
portfolio_total(portfolio, data) ==
    LET pvs == product_pvs(portfolio, data)
    IN  IF FirstErr(pvs) # "none" THEN Raise(FirstErr(pvs))
        ELSE Ok(RSum([i \in 1..Len(pvs) |-> pvs[i].val]))

ValuationResult(scenario_pv, pv_values) ==
    [err |-> "none", scenario_pv |-> scenario_pv, portfolio_pv_distribution |-> pv_values]

\* ValuationEngine.value: the loop's state after the first n scenarios.
RECURSIVE value_loop(_, _, _)
value_loop(portfolio, scenarios, n) ==
    IF n = 0 THEN ValuationResult(EmptyDict, <<>>)
    ELSE LET prev == value_loop(portfolio, scenarios, n - 1)
             total == portfolio_total(portfolio, scenario_data(scenarios[n]))
         IN  IF prev.err # "none" THEN prev
             ELSE IF total.err # "none" THEN [err |-> total.err]
             ELSE ValuationResult(Put(prev.scenario_pv, scenarios[n].name, total.val),
                                  Append(prev.portfolio_pv_distribution, total.val))

ValuationEngine_value(portfolio, scenarios) ==
    value_loop(portfolio, scenarios, Len(scenarios))

DigitChars == <<"0", "1", "2", "3", "4", "5", "6", "7", "8", "9">>

\* str(n) for n >= 0, as its sequence of characters.
RECURSIVE Decimal(_)
Decimal(n) == IF n < 10 THEN <<DigitChars[n + 1]>>
              ELSE Decimal(n \div 10) \o <<DigitChars[(n % 10) + 1]>>

\* f"{idx:03d}": the decimal digits, left-padded with zeros to three characters.
Format03d(idx) ==
    LET d == Decimal(idx)
    IN  IF Len(d) >= 3 THEN d ELSE [i \in 1..(3 - Len(d)) |-> "0"] \o d

\* A labelling by class name alone: positions of one instrument type share a key.
Label_ClassOnly(idx, product) == <<"_", product.cls>>

\* label = f"{idx:03d}_{product.__class__.__name__}": a sequence of characters
\* in which the class name (no class of the library has a "_") is one item.
Label(idx, product) == Format03d(idx) \o <<"_", product.cls>>

\* value_with_contributions, inner loop: per_product and total after the first
\* n products.
RECURSIVE per_product_loop(_, _, _)
per_product_loop(portfolio, data, n) ==
    IF n = 0 THEN [err |-> "none", per_product |-> EmptyDict, total |-> RZero]
    ELSE LET prev == per_product_loop(portfolio, data, n - 1)
             pv == present_value(portfolio[n], data)
         IN  IF prev.err # "none" THEN prev
             ELSE IF pv.err # "none" THEN [err |-> pv.err]
             ELSE [err |-> "none",
                   per_product |-> Put(prev.per_product, Label(n - 1, portfolio[n]), pv.val),
                   total |-> RAdd(prev.total, pv.val)]

\* value_with_contributions, outer loop: its state after the first n scenarios.
RECURSIVE contributions_loop(_, _, _)
contributions_loop(portfolio, scenarios, n) ==
    IF n = 0 THEN [err |-> "none", result |-> ValuationResult(EmptyDict, <<>>),
                   contributions |-> EmptyDict]
    ELSE LET prev == contributions_loop(portfolio, scenarios, n - 1)
             inner == per_product_loop(portfolio, scenario_data(scenarios[n]), Len(portfolio))
             name == scenarios[n].name
         IN  IF prev.err # "none" THEN prev
             ELSE IF inner.err # "none" THEN [err |-> inner.err]
             ELSE [err |-> "none",
                   result |-> ValuationResult(
                       Put(prev.result.scenario_pv, name, inner.total),
                       Append(prev.result.portfolio_pv_distribution, inner.total)),
                   contributions |-> Put(prev.contributions, name, inner.per_product)]

ValuationEngine_value_with_contributions(portfolio, scenarios) ==
    contributions_loop(portfolio, scenarios, Len(scenarios))

\* label.split("_", 1)[1] if "_" in label else label
GroupOf(label) ==
    IF \E i \in 1..Len(label) : label[i] = "_"
    THEN LET first == CHOOSE i \in 1..Len(label) :
                          label[i] = "_" /\ \A j \in 1..(i - 1) : label[j] # "_"
         IN  SubSeq(label, first + 1, Len(label))
    ELSE label

\* groups[group] = groups.get(group, 0.0) + pv over the first n items of per_product
RECURSIVE groups_loop(_, _)
groups_loop(per_product, n) ==
    IF n = 0 THEN EmptyDict
    ELSE LET prev == groups_loop(per_product, n - 1)
             group == GroupOf(per_product.keys[n])
             before == IF Has(prev, group) THEN Get(prev, group) ELSE RZero
         IN  Put(prev, group, RAdd(before, per_product.vals[n]))

\* grouped[scenario_name] = groups over the first n items of contributions
RECURSIVE grouped_loop(_, _)
grouped_loop(contribs, n) ==
    IF n = 0 THEN EmptyDict
    ELSE Put(grouped_loop(contribs, n - 1), contribs.keys[n],
             groups_loop(contribs.vals[n], Len(contribs.vals[n].keys)))

ValuationEngine_value_with_grouped_contributions(portfolio, scenarios) ==
    LET inner == ValuationEngine_value_with_contributions(portfolio, scenarios)
    IN  IF inner.err # "none" THEN inner
        ELSE [err |-> "none", result |-> inner.result,
              grouped |-> grouped_loop(inner.contributions, Len(inner.contributions.keys))]

\* np.max(a), a non-empty
np_max(a) ==
    CHOOSE x \in {a[i] : i \in 1..Len(a)} : \A i \in 1..Len(a) : RLe(a[i], x)

\* np.quantile(a, q) for 0 <= q <= 1 and a non-empty: linear interpolation
\* between the order statistics next to position q * (len(a) - 1).
np_quantile(a, q) ==
    LET sorted == SortSeq(a, LAMBDA x, y : RLt(x, y))
        pos == RMul(q, RInt(Len(a) - 1))
        lo == RFloor(pos)
        frac == RSub(pos, RInt(lo))
    IN  IF lo + 1 >= Len(a) THEN sorted[Len(a)]
        ELSE RAdd(sorted[lo + 1], RMul(frac, RSub(sorted[lo + 2], sorted[lo + 1])))

\* A base that ignores the base scenario and takes the first PV of the array.
base_pv_First(result_) == result_.portfolio_pv_distribution[1]

\* base_pv = self.scenario_pv.get("parallel_shift_+0bps"), or np.max of the
\* distribution when there is none.
base_pv(result_) ==
    IF Has(result_.scenario_pv, BaseName) THEN Get(result_.scenario_pv, BaseName)
    ELSE np_max(result_.portfolio_pv_distribution)

\* ValuationResult.pvat_risk(confidence).  An empty distribution leaves np.max
\* (and the quantile) nothing to reduce: ValueError.
pvat_risk(result_, confidence) ==
    IF ~(RLt(RZero, confidence) /\ RLt(confidence, ROne)) THEN Raise("ValueError")
    ELSE IF Len(result_.portfolio_pv_distribution) = 0 THEN Raise("ValueError")
    ELSE Ok(RSub(base_pv(result_),
                 np_quantile(result_.portfolio_pv_distribution, RSub(ROne, confidence))))

\* A shortfall averaged over the losses up to the quantile instead of beyond it.
expected_shortfall_LowerTail(result_, confidence) ==
    IF ~(RLt(RZero, confidence) /\ RLt(confidence, ROne)) THEN Raise("ValueError")
    ELSE IF Len(result_.portfolio_pv_distribution) = 0 THEN Raise("ValueError")
    ELSE LET dist == result_.portfolio_pv_distribution
             losses == [i \in 1..Len(dist) |-> RSub(base_pv(result_), dist[i])]
             var == np_quantile(losses, confidence)
             tail == SelectSeq(losses, LAMBDA l : RLe(l, var))
         IN  IF Len(tail) = 0 THEN Ok(RZero)
             ELSE Ok(RDiv(RSum(tail), RInt(Len(tail))))

\* ValuationResult.expected_shortfall(confidence)
expected_shortfall(result_, confidence) ==
    IF ~(RLt(RZero, confidence) /\ RLt(confidence, ROne)) THEN Raise("ValueError")
    ELSE IF Len(result_.portfolio_pv_distribution) = 0 THEN Raise("ValueError")
    ELSE LET dist == result_.portfolio_pv_distribution
             losses == [i \in 1..Len(dist) |-> RSub(base_pv(result_), dist[i])]
             var == np_quantile(losses, confidence)
             tail == SelectSeq(losses, LAMBDA l : RLe(var, l))
         IN  IF Len(tail) = 0 THEN Ok(RZero)
             ELSE Ok(RDiv(RSum(tail), RInt(Len(tail))))

-----------------------------------------------------------------------------
(* Valuing portfolios: the inputs and the calls.                           *)

MaxScenarios == 3    \* scenario lists have up to MaxScenarios scenarios

BondA == [cls |-> "FixedRateBond", notional |-> RInt(1), coupon_rate |-> Half,
          maturity_years |-> RInt(1), coupon_frequency |-> 1]
BondB == [cls |-> "FixedRateBond", notional |-> RInt(2), coupon_rate |-> Half,
          maturity_years |-> RInt(2), coupon_frequency |-> 1]
SwapA == [cls |-> "FixedFloatSwap", notional |-> RInt(1), fixed_rate |-> Half,
          maturity_years |-> RInt(2), fixed_frequency |-> 1, float_frequency |-> 2,
          pay_fixed |-> TRUE]

Portfolios == {<<>>, <<BondA, BondB>>, <<BondA, SwapA, BondB>>}

ScenarioChoices ==
    {Scenario(name, model, NoData) :
         name \in {BaseName, "mc_0"}, model \in {FlatCurve(0), FlatCurve(2)}}
    \cup {Scenario("mc_1", NoneObj, NoData),
          Scenario("mc_1", FlatCurve(0), [NoData EXCEPT !.model = FlatCurve(4)])}

ScenarioLists == SeqsUpTo(ScenarioChoices, MaxScenarios)

Confidences == {Rat(k, 4) : k \in 0..4}

NotCalled == [err |-> "unset"]
NoRisk == [op |-> "none"]

\* out = ValuationEngine(portfolio).value(scenarios)
Value(portfolio, scenarios, out) ==
    /\ result.err = "unset"
    /\ products' = portfolio
    /\ scenariosIn' = scenarios
    /\ result' = out
    /\ UNCHANGED <<contributions, grouped, risk>>
    /\ UNCHANGED <<productVars, curveVars, bootVars, callVars>>

\* out = ValuationEngine(portfolio).value_with_contributions(scenarios)
ValueWithContributions(portfolio, scenarios, out) ==
    /\ result.err = "unset"
    /\ products' = portfolio
    /\ scenariosIn' = scenarios
    /\ result' = IF out.err = "none" THEN out.result ELSE out
    /\ contributions' = IF out.err = "none" THEN Ok(out.contributions) ELSE out
    /\ UNCHANGED <<grouped, risk>>
    /\ UNCHANGED <<productVars, curveVars, bootVars, callVars>>

\* out = ValuationEngine(portfolio).value_with_grouped_contributions(scenarios)
ValueWithGroupedContributions(portfolio, scenarios, out) ==
    /\ result.err = "unset"
    /\ products' = portfolio
    /\ scenariosIn' = scenarios
    /\ result' = IF out.err = "none" THEN out.result ELSE out
    /\ grouped' = IF out.err = "none" THEN Ok(out.grouped) ELSE out
    /\ UNCHANGED <<contributions, risk>>
    /\ UNCHANGED <<productVars, curveVars, bootVars, callVars>>

\* result.pvat_risk(confidence)
PvatRisk(confidence) ==
    /\ result.err = "none"
    /\ risk.op = "none"
    /\ risk' = [op |-> "pvat_risk", confidence |-> confidence,
                out |-> pvat_risk(result, confidence)]
    /\ UNCHANGED <<products, scenariosIn, result, contributions, grouped>>
    /\ UNCHANGED <<productVars, curveVars, bootVars, callVars>>

\* result.expected_shortfall(confidence)
ExpectedShortfall(confidence) ==
    /\ result.err = "none"
    /\ risk.op = "none"
    /\ risk' = [op |-> "expected_shortfall", confidence |-> confidence,
                out |-> expected_shortfall(result, confidence)]
    /\ UNCHANGED <<products, scenariosIn, result, contributions, grouped>>
    /\ UNCHANGED <<productVars, curveVars, bootVars, callVars>>

NextEngine ==
    \/ \E portfolio \in Portfolios : \E scenarios \in ScenarioLists :
           Value(portfolio, scenarios, ValuationEngine_value(portfolio, scenarios))
    \/ \E portfolio \in Portfolios : \E scenarios \in ScenarioLists :
           ValueWithContributions(portfolio, scenarios,
               ValuationEngine_value_with_contributions(portfolio, scenarios))
    \/ \E portfolio \in Portfolios : \E scenarios \in ScenarioLists :
           ValueWithGroupedContributions(portfolio, scenarios,
               ValuationEngine_value_with_grouped_contributions(portfolio, scenarios))
    \/ \E confidence \in Confidences : PvatRisk(confidence)
    \/ \E confidence \in Confidences : ExpectedShortfall(confidence)

-----------------------------------------------------------------------------
(* Curve calibration: models/calibration.py.                               *)

DepositQuote(tenor_years, simple_rate) ==
    [tenor_years |-> tenor_years, simple_rate |-> simple_rate]
SwapQuote(maturity_years, par_rate, fixed_frequency) ==
    [maturity_years |-> maturity_years, par_rate |-> par_rate,
     fixed_frequency |-> fixed_frequency]

\* sorted(xs, key=lambda x: x.<field>): ascending, equal keys in input order.
RECURSIVE sorted_by(_, _)
sorted_by(xs, field) ==
    IF Len(xs) <= 1 THEN xs
    ELSE LET head == sorted_by(SubSeq(xs, 1, Len(xs) - 1), field)
             x == xs[Len(xs)]
             k == Cardinality({i \in 1..Len(head) : RLe(head[i][field], x[field])})
         IN  SubSeq(head, 1, k) \o <<x>> \o SubSeq(head, k + 1, Len(head))

\* The bootstrap's locals: dfs, plus a record of which quote produced each dfs
\* entry and of every dfs entry a swap read (bookkeeping for the properties).
BootState(err, dfs, producer, reads) ==
    [err |-> err, dfs |-> dfs, producer |-> producer, reads |-> reads]

\* The deposit loop of bootstrap_zero_curve after the first n deposits.
RECURSIVE deposit_loop(_, _)
deposit_loop(dep_sorted, n) ==
    IF n = 0 THEN BootState("none", EmptyDict, EmptyDict, <<>>)
    ELSE LET prev == deposit_loop(dep_sorted, n - 1)
             d == dep_sorted[n]
             growth == RAdd(ROne, RMul(d.simple_rate, d.tenor_years))
         IN  IF prev.err # "none" THEN prev
             ELSE IF RLe(d.tenor_years, RZero) THEN [prev EXCEPT !.err = "ValueError"]
             ELSE IF RLt(d.simple_rate, Rat(-99, 100)) THEN [prev EXCEPT !.err = "ValueError"]
             ELSE IF growth = RZero THEN [prev EXCEPT !.err = "ZeroDivisionError"]
             ELSE BootState("none",
                            Put(prev.dfs, d.tenor_years, RDiv(ROne, growth)),
                            Put(prev.producer, d.tenor_years, [by |-> "deposit"]),
                            prev.reads)

\* pay_times = [i * dt for i in range(1, n + 1)], n = int(round(maturity * frequency))
pay_times(s) ==
    [i \in 1..PyRound(RMul(s.maturity_years, RInt(s.fixed_frequency))) |->
        RMul(RInt(i), Rat(1, s.fixed_frequency))]

\* A pass of the swap loop that leaves out the grid times it has no discount
\* factor for instead of raising.
swap_step_SkipMissing(st, s) ==
    IF RLe(s.maturity_years, RZero) THEN [st EXCEPT !.err = "ValueError"]
    ELSE IF s.fixed_frequency <= 0 THEN [st EXCEPT !.err = "ValueError"]
    ELSE IF PyRound(RMul(s.maturity_years, RInt(s.fixed_frequency))) <= 0
         THEN [st EXCEPT !.err = "ValueError"]
    ELSE LET dt == Rat(1, s.fixed_frequency)
             times == pay_times(s)
             earlier == SelectSeq(SubSeq(times, 1, Len(times) - 1), LAMBDA t : Has(st.dfs, t))
             known_leg == RSum([i \in 1..Len(earlier) |-> RMul(dt, Get(st.dfs, earlier[i]))])
             numerator == RSub(ROne, RMul(s.par_rate, known_leg))
             denominator == RAdd(ROne, RMul(s.par_rate, dt))
         IN  IF \E i \in 1..Len(earlier) : ~Has(st.dfs, earlier[i])
             THEN [st EXCEPT !.err = "ValueError"]
             ELSE IF denominator = RZero THEN [st EXCEPT !.err = "ZeroDivisionError"]
             ELSE IF RLe(RDiv(numerator, denominator), RZero)
                  THEN [st EXCEPT !.err = "ValueError"]
             ELSE BootState("none",
                      Put(st.dfs, s.maturity_years, RDiv(numerator, denominator)),
                      Put(st.producer, s.maturity_years,
                          [by |-> "swap", maturity_years |-> s.maturity_years]),
                      st.reads \o [i \in 1..Len(earlier) |->
                                      [swap |-> s, time |-> earlier[i],
                                       df |-> Get(st.dfs, earlier[i]),
                                       producer |-> Get(st.producer, earlier[i])]])

\* One pass of the swap loop: swap s against the state st before it.
swap_step(st, s) ==
    IF RLe(s.maturity_years, RZero) THEN [st EXCEPT !.err = "ValueError"]
    ELSE IF s.fixed_frequency <= 0 THEN [st EXCEPT !.err = "ValueError"]
    ELSE IF PyRound(RMul(s.maturity_years, RInt(s.fixed_frequency))) <= 0
         THEN [st EXCEPT !.err = "ValueError"]
    ELSE LET dt == Rat(1, s.fixed_frequency)
             times == pay_times(s)
             earlier == SubSeq(times, 1, Len(times) - 1)
             known_leg == RSum([i \in 1..Len(earlier) |-> RMul(dt, Get(st.dfs, earlier[i]))])
             numerator == RSub(ROne, RMul(s.par_rate, known_leg))
             denominator == RAdd(ROne, RMul(s.par_rate, dt))
         IN  IF \E i \in 1..Len(earlier) : ~Has(st.dfs, earlier[i])
             THEN [st EXCEPT !.err = "ValueError"]
             ELSE IF denominator = RZero THEN [st EXCEPT !.err = "ZeroDivisionError"]
             ELSE IF RLe(RDiv(numerator, denominator), RZero)
                  THEN [st EXCEPT !.err = "ValueError"]
             ELSE BootState("none",
                      Put(st.dfs, s.maturity_years, RDiv(numerator, denominator)),
                      Put(st.producer, s.maturity_years,
                          [by |-> "swap", maturity_years |-> s.maturity_years]),
                      st.reads \o [i \in 1..Len(earlier) |->
                                      [swap |-> s, time |-> earlier[i],
                                       df |-> Get(st.dfs, earlier[i]),
                                       producer |-> Get(st.producer, earlier[i])]])

\* The swap loop after the first n swaps, entered in state st.
RECURSIVE swap_loop(_, _, _)
swap_loop(st, sw_sorted, n) ==
    IF n = 0 THEN st
    ELSE LET prev == swap_loop(st, sw_sorted, n - 1)
         IN  IF prev.err # "none" THEN prev ELSE swap_step(prev, sw_sorted[n])

\* sorted(dfs.keys())
sorted_keys(dfs) == SortSeq(dfs.keys, LAMBDA x, y : RLt(x, y))

\* bootstrap_zero_curve(deposits, swaps, interpolation).  The curve it returns
\* has the node tenors sorted(dfs.keys()) and the zero rates -ln(DF) / T of the
\* node discount factors, which are what the outcome carries; the diagnostics
\* are computed from the finished curve and raise nothing.
bootstrap_zero_curve(deposits, swaps, interpolation) ==
    LET dep_sorted == sorted_by(deposits, "tenor_years")
        sw_sorted == sorted_by(swaps, "maturity_years")
        st == swap_loop(deposit_loop(dep_sorted, Len(dep_sorted)), sw_sorted, Len(sw_sorted))
        tenors == sorted_keys(st.dfs)
        discount_factors == [i \in 1..Len(tenors) |-> Get(st.dfs, tenors[i])]
    IN  IF interpolation \notin {"linear_zero", "log_df"}
        THEN [pc |-> "raised", err |-> "ValueError", reads |-> <<>>]
        ELSE IF dep_sorted = <<>> /\ sw_sorted = <<>>
        THEN [pc |-> "raised", err |-> "ValueError", reads |-> <<>>]
        ELSE IF st.err # "none" THEN [pc |-> "raised", err |-> st.err, reads |-> st.reads]
        ELSE IF post_init("zero_curve", Arr(1, tenors), Arr(1, discount_factors)) # "none"
        THEN [pc |-> "raised",
              err |-> post_init("zero_curve", Arr(1, tenors), Arr(1, discount_factors)),
              reads |-> st.reads]
        ELSE [pc |-> "returned", err |-> "none", reads |-> st.reads,
              tenors |-> tenors, discount_factors |-> discount_factors,
              producer |-> [i \in 1..Len(tenors) |-> Get(st.producer, tenors[i])]]

-----------------------------------------------------------------------------
(* Bootstrapping: the inputs and the call.                                 *)

MaxDeposits == 2     \* longest list of deposit quotes
MaxSwaps == 2        \* longest list of swap quotes

DepositChoices ==
    {DepositQuote(t, r) : t \in {Half, RInt(1)}, r \in {RZero, RInt(1)}}
    \cup {DepositQuote(RZero, RZero)}

SwapChoices ==
    {SwapQuote(m, k, f) : m \in {RInt(1), Rat(5, 4), RInt(2)}, k \in {Half, RInt(4)},
                          f \in {1, 2}}
    \cup {SwapQuote(RInt(1), Half, 0)}

\* The list xs read from its last item to its first.
Reverse(xs) == [i \in 1..Len(xs) |-> xs[Len(xs) + 1 - i]]

\* out = bootstrap_zero_curve(deposits, swaps, interpolation), and out_reversed
\* the same call on the same quotes listed in the opposite order.
Bootstrap(deposits, swaps, interpolation, out, out_reversed) ==
    /\ boot.pc = "idle"
    /\ quotes' = [deposits |-> deposits, swaps |-> swaps, interpolation |-> interpolation]
    /\ boot' = out
    /\ bootReversed' = out_reversed
    /\ UNCHANGED <<productVars, engineVars, curveVars, callVars>>

NextBootstrap ==
    \E deposits \in SeqsUpTo(DepositChoices, MaxDeposits) :
        \E swaps \in SeqsUpTo(SwapChoices, MaxSwaps) :
            \E interpolation \in {"linear_zero", "cubic"} :
                Bootstrap(deposits, swaps, interpolation,
                    bootstrap_zero_curve(deposits, swaps, interpolation),
                    bootstrap_zero_curve(Reverse(deposits), Reverse(swaps), interpolation))

-----------------------------------------------------------------------------
(* The callable bond: products/callable_bond.py.                           *)

\* min(a, b)
RMin(a, b) == IF RLt(b, a) THEN b ELSE a

\* abs(a)
RAbs(a) == IF RLt(a, RZero) THEN RNeg(a) ELSE a

\* The integer whose square is n, or -1 when n is not a perfect square.
ISqrt(n) == IF \E k \in 0..n : k * k = n THEN CHOOSE k \in 0..n : k * k = n ELSE -1

\* math.sqrt(x) for x >= 0: a rational exactly when numerator and denominator
\* are perfect squares.
Sqrt(x) == IF ISqrt(x[1]) < 0 \/ ISqrt(x[2]) < 0 THEN NoneR ELSE Rat(ISqrt(x[1]), ISqrt(x[2]))

\* DeterministicZeroCurve.short_rate: the interpolated zero rate at t.
short_rate(c, t) ==
    IF RLt(t, RZero) THEN Raise("ValueError") ELSE Ok(interp_zero_rate(c, t))

\* {float(t): float(price) for t, price in self.call_schedule}, first n entries
RECURSIVE call_map_loop(_, _)
call_map_loop(call_schedule, n) ==
    IF n = 0 THEN EmptyDict
    ELSE Put(call_map_loop(call_schedule, n - 1), call_schedule[n][1], call_schedule[n][2])

\* state * sigma * sqrt_dt: zero when state * sigma is, whatever math.sqrt(dt) is.
StateShift(state, sigma, dt) ==
    LET k == RMul(RInt(state), sigma)
    IN  IF k = RZero THEN RZero ELSE RMul(k, Sqrt(dt))

\* The pass with the call test made on the node's own date.
lattice_step_TestsNodeDate(b, model, oas, values, i) ==
    LET dt == PeriodLength(b.coupon_frequency)
        coupon == RMul(RMul(b.notional, b.coupon_rate), dt)
        sigma == RMax(b.short_rate_volatility, RZero)
        call_map == call_map_loop(b.call_schedule, Len(b.call_schedule))
        t_i == RMul(RInt(i), dt)
        t_pay == RMul(RInt(i + 1), dt)
    IN  [k \in 1..(i + 1) |->
            LET j == k - 1
                state == 2 * j - i
                local_r == RAdd(RAdd(short_rate(model, t_i).val, StateShift(state, sigma, dt)), oas)
                disc == ExpNeg(RMul(local_r, dt))
                cont == RMul(disc, RAdd(RAdd(RMul(Half, values[j + 1]),
                                             RMul(Half, values[j + 2])), coupon))
            IN  IF Has(call_map, t_i)
                THEN RMin(cont, RMul(disc, RAdd(Get(call_map, t_i), coupon)))
                ELSE cont]

\* One pass of the "for j in range(i + 1)" loop of price_with_oas: next_vals
\* at time step i from the values at step i + 1 (values[j] is values[j + 1] here).
lattice_step(b, model, oas, values, i) ==
    LET dt == PeriodLength(b.coupon_frequency)
        coupon == RMul(RMul(b.notional, b.coupon_rate), dt)
        sigma == RMax(b.short_rate_volatility, RZero)
        call_map == call_map_loop(b.call_schedule, Len(b.call_schedule))
        t_i == RMul(RInt(i), dt)
        t_pay == RMul(RInt(i + 1), dt)
    IN  [k \in 1..(i + 1) |->
            LET j == k - 1
                state == 2 * j - i
                local_r == RAdd(RAdd(short_rate(model, t_i).val, StateShift(state, sigma, dt)), oas)
                disc == ExpNeg(RMul(local_r, dt))
                cont == RMul(disc, RAdd(RAdd(RMul(Half, values[j + 1]),
                                             RMul(Half, values[j + 2])), coupon))
            IN  IF Has(call_map, t_pay)
                THEN RMin(cont, RMul(disc, RAdd(Get(call_map, t_pay), coupon)))
                ELSE cont]

\* "for i in range(n - 1, -1, -1)": backward induction from step i down to 0.
RECURSIVE lattice_loop(_, _, _, _, _)
lattice_loop(b, model, oas, values, i) ==
    IF i < 0 THEN values
    ELSE lattice_loop(b, model, oas, lattice_step(b, model, oas, values, i), i - 1)

\* CallableFixedRateBond.price_with_oas
price_with_oas(b, oas, scenario) ==
    IF ~IsRateModel(scenario.model) THEN Raise("TypeError")
    ELSE LET n == PeriodCount(b.maturity_years, b.coupon_frequency)
         IN  IF n <= 0 THEN Raise("ValueError")
             ELSE Ok(lattice_loop(b, scenario.model, oas,
                                  [k \in 1..(n + 1) |-> b.notional], n - 1)[1])

\* CallableFixedRateBond.present_value
CallableFixedRateBond_present_value(b, scenario) ==
    IF ~IsRateModel(scenario.model) THEN Raise("TypeError")
    ELSE price_with_oas(b, RZero, scenario)

(* Pricing callable bonds: the inputs.  With one coupon a year dt = 1 and   *)
(* every lattice rate is a whole number of ln 2; with two a year the        *)
(* volatility is zero or negative, so that sqrt(1/2) never enters.          *)

CallSchedules ==
    {<<>>, <<<<RInt(1), RInt(1)>>>>, <<<<RInt(1), RInt(0)>>, <<RInt(1), RInt(1)>>>>}

CallableBonds ==
    {[cls |-> "CallableFixedRateBond", notional |-> n, coupon_rate |-> Half,
      maturity_years |-> m, coupon_frequency |-> fv[1], call_schedule |-> cs,
      short_rate_volatility |-> RInt(fv[2])] :
        n \in Notionals, m \in Maturities, cs \in CallSchedules,
        fv \in {<<1, -1>>, <<1, 0>>, <<1, 1>>, <<2, -1>>, <<2, 0>>}}

BondScenarios == {ScenarioDict(m, NoneObj, NoneObj, NoneObj) : m \in ModelSlot}

\* The FixedRateBond with the callable bond's notional, coupon rate, maturity
\* and coupon frequency.
Vanilla(b) ==
    [cls |-> "FixedRateBond", notional |-> b.notional, coupon_rate |-> b.coupon_rate,
     maturity_years |-> b.maturity_years, coupon_frequency |-> b.coupon_frequency]

\* pv = bond.present_value(scenario), next to the PV of the plain bond with
\* the same terms under the same scenario.
PriceCallable(b, scenario, pv, vanilla_pv) ==
    /\ bondCall.op = "none"
    /\ bondCall' = [op |-> "callable_pv", product |-> b, scenario |-> scenario,
                    pv |-> pv, vanilla_pv |-> vanilla_pv]
    /\ UNCHANGED <<productVars, engineVars, curveVars, bootVars, lateVars, sensCall, csaCall, genCall>>

-----------------------------------------------------------------------------
(* The corporate bond: products/corporate_bond.py.                         *)

\* _FREQ_TO_YEARS.get(frequency)
FREQ_TO_YEARS(frequency) ==
    CASE frequency = "monthly" -> Rat(1, 12)
      [] frequency = "quarterly" -> Rat(1, 4)
      [] frequency = "semi_annual" -> Half
      [] frequency = "annual" -> ROne
      [] OTHER -> NoneR

\* str.upper() on the day-count spellings used here.
Upper(s) ==
    CASE s = "act/365" -> "ACT/365"
      [] s = "act/360" -> "ACT/360"
      [] s = "act/act" -> "ACT/ACT"
      [] OTHER -> s

\* CorporateBond._accrual_factor
accrual_factor(p, dt) ==
    IF Upper(p.day_count) \in {"30/360", "ACT/365", "ACT/360"} THEN Ok(dt)
    ELSE Raise("ValueError")

\* x ** dt for the period lengths of _FREQ_TO_YEARS: x itself for a year, a
\* square root for half a year, a fourth root for a quarter.
PowDt(x, dt) ==
    IF dt = ROne THEN x
    ELSE IF x = ROne \/ x = RZero THEN x
    ELSE IF dt = Half THEN Sqrt(x)
    ELSE IF dt = Rat(1, 4) THEN (IF Sqrt(x) = NoneR THEN NoneR ELSE Sqrt(Sqrt(x)))
    ELSE NoneR

\* The rate of CorporateBond._prepayment_amount: the explicit periodic rate,
\* or the SMM 1 - (1 - CPR) ** dt.
prepayment_rate(p, dt) ==
    IF p.periodic_prepayment_rate # NoneR THEN RMax(RZero, p.periodic_prepayment_rate)
    ELSE RSub(ROne, PowDt(RSub(ROne, RMax(RZero, p.annual_cpr)), dt))

\* CorporateBond._prepayment_amount
prepayment_amount(p, outstanding, dt) == RMul(outstanding, prepayment_rate(p, dt))

\* CorporateBond._coupon_rate
coupon_rate(p, model, t0, t1) ==
    IF p.coupon_type = "fixed" THEN Ok(p.fixed_rate)
    ELSE IF p.coupon_type = "floating" THEN
        LET fwd == forward_rate(model, t0, t1)
        IN  IF fwd.err # "none" THEN fwd ELSE Ok(RAdd(fwd.val, p.spread))
    ELSE Raise("ValueError")

\* CorporateBond._scheduled_principal
scheduled_principal(p, periods) ==
    IF p.amortization_mode = "bullet" THEN
        [err |-> "none",
         principal |-> [i \in 1..periods |-> IF i = periods THEN p.notional ELSE RZero]]
    ELSE IF p.amortization_mode = "linear" THEN
        [err |-> "none",
         principal |-> [i \in 1..periods |-> RDiv(p.notional, RInt(periods))]]
    ELSE IF p.amortization_mode = "custom" THEN
        IF Len(p.custom_amortization) # periods THEN [err |-> "ValueError", principal |-> <<>>]
        ELSE [err |-> "none", principal |-> p.custom_amortization]
    ELSE [err |-> "ValueError", principal |-> <<>>]

\* One pass of the period loop of CorporateBond._cashflows, from the balance
\* outstanding at the period's start.
period_row(p, model, schedule, dt, i, outstanding) ==
    LET t0 == RMul(RInt(i - 1), dt)
        t1 == RMul(RInt(i), dt)
        prepay == prepayment_amount(p, outstanding, dt)
        outstanding_after_prepay == RMax(RZero, RSub(outstanding, prepay))
        rate == coupon_rate(p, model, t0, t1)
        accrual == accrual_factor(p, dt)
        err == FirstErr(<<rate, accrual>>)
        interest_cf == IF err # "none" THEN RZero
                       ELSE RMul(RMul(outstanding_after_prepay, rate.val), accrual.val)
        scheduled == IF i > p.interest_only_periods
                     THEN RMin(outstanding_after_prepay, schedule[i]) ELSE RZero
    IN  [err |-> err, time |-> t1, opening |-> outstanding, prepay |-> prepay,
         rate |-> rate.val, accrual |-> accrual.val, interest |-> interest_cf,
         due |-> schedule[i], scheduled |-> scheduled,
         total |-> RAdd(RAdd(interest_cf, prepay), scheduled),
         closing |-> RMax(RZero, RSub(outstanding_after_prepay, scheduled))]

\* "for i in range(1, periods + 1)": the rows of periods 1..i.
RECURSIVE period_rows(_, _, _, _, _)
period_rows(p, model, schedule, dt, i) ==
    IF i = 0 THEN <<>>
    ELSE LET before == period_rows(p, model, schedule, dt, i - 1)
             outstanding == IF i = 1 THEN p.notional ELSE before[i - 1].closing
         IN  Append(before, period_row(p, model, schedule, dt, i, outstanding))

\* The balance below which _cashflows pays no final remainder: 1e-8.
Dust == Rat(1, 100000000)

\* CorporateBond._cashflows: the cashflow list, with the per-period rows it
\* was built from.
CorporateBond_cashflows(p, model) ==
    LET dt == FREQ_TO_YEARS(p.frequency)
        NoRows(e) == [err |-> e, cfs |-> <<>>, rows |-> <<>>]
    IN  IF RLe(p.notional, RZero) \/ RLe(p.maturity_years, RZero) THEN NoRows("ValueError")
        ELSE IF dt = NoneR THEN NoRows("ValueError")
        ELSE LET periods == PyRound(RDiv(p.maturity_years, dt))
             IN  IF periods <= 0 THEN NoRows("ValueError")
                 ELSE IF p.interest_only_periods < 0 \/ p.interest_only_periods >= periods
                      THEN NoRows("ValueError")
                 ELSE LET schedule == scheduled_principal(p, periods)
                      IN  IF schedule.err # "none" THEN NoRows(schedule.err)
                          ELSE LET rows == period_rows(p, model, schedule.principal, dt, periods)
                                   err == FirstErr(rows)
                                   outstanding == rows[periods].closing
                                   regular == [i \in 1..periods |->
                                                  Cashflow(rows[i].time, rows[i].total)]
                               IN  IF err # "none" THEN NoRows(err)
                                   ELSE [err |-> "none", rows |-> rows,
                                         cfs |-> IF RLt(Dust, outstanding)
                                                 THEN Append(regular,
                                                        Cashflow(RMul(RInt(periods), dt), outstanding))
                                                 ELSE regular]

\* CorporateBond.get_cashflows, with the rows behind the cashflows.
CorporateBond_get_cashflows(p, scenario) ==
    IF ~IsRateModel(scenario.model) THEN [err |-> "TypeError", cfs |-> <<>>, rows |-> <<>>]
    ELSE CorporateBond_cashflows(p, scenario.model)

\* CorporateBond.present_value
CorporateBond_present_value(p, scenario) ==
    IF ~IsRateModel(scenario.model) THEN Raise("TypeError")
    ELSE DiscountedSum(scenario.model, CorporateBond_cashflows(p, scenario.model))

\* x ** n for a whole n >= 0
RECURSIVE RPowInt(_, _)
RPowInt(x, n) == IF n = 0 THEN ROne ELSE RMul(RPowInt(x, n - 1), x)

\* x ** t for t a whole or half number of years
RPow(x, t) ==
    IF t[2] = 1 THEN RPowInt(x, t[1])
    ELSE IF t[2] = 2 THEN RMul(RPowInt(x, t[1] \div 2), Sqrt(x))
    ELSE NoneR

\* The sign of a * b, as the comparisons "f_lo * f_hi > 0" and
\* "f_lo * f_mid <= 0" read it.
ProductSign(a, b) ==
    LET sign(x) == IF x[1] > 0 THEN 1 ELSE IF x[1] < 0 THEN -1 ELSE 0
    IN  sign(a) * sign(b)

\* The literal 5.0 that stops the bracket from widening.  Yields and spreads
\* that enter an exponential are in units of ln 2, where 5.0 reads 5 / ln 2 =
\* 7.2134...; annually compounded yields are plain numbers.
BracketCap(in_ln2_units) == IF in_ln2_units THEN Rat(7213, 1000) ELSE RInt(5)

\* What a solver returns: the value, and whether it left through the
\* "abs(f_mid) < tol" test rather than by running out of iterations.
Solved(x, by_tol) == [err |-> "none", val |-> x, converged |-> by_tol]
Unsolved(e) == [err |-> e, val |-> RZero, converged |-> FALSE]

\* CorporateBond.price_from_yield
price_from_yield(p, annual_yield, scenario, compounding) ==
    IF ~IsRateModel(scenario.model) THEN Raise("TypeError")
    ELSE LET flows == CorporateBond_cashflows(p, scenario.model)
         IN  IF flows.err # "none" THEN Raise(flows.err)
             ELSE IF compounding = "continuous" THEN
                 Ok(RSum([i \in 1..Len(flows.cfs) |->
                       RMul(flows.cfs[i].amount,
                            ExpNeg(RMul(annual_yield, flows.cfs[i].time)))]))
             ELSE IF compounding = "annual" THEN
                 Ok(RSum([i \in 1..Len(flows.cfs) |->
                       RDiv(flows.cfs[i].amount,
                            RPow(RAdd(ROne, annual_yield), flows.cfs[i].time))]))
             ELSE Raise("ValueError")

\* "while f_lo * f_hi > 0 and hi < 5.0: hi *= 1.5; f_hi = ..." of yield_to_maturity
RECURSIVE ytm_widen(_, _, _, _, _, _)
ytm_widen(p, target, scenario, compounding, f_lo, hi) ==
    LET f_hi == RSub(price_from_yield(p, hi, scenario, compounding).val, target)
    IN  IF ProductSign(f_lo, f_hi) > 0 /\ RLt(hi, BracketCap(compounding = "continuous"))
        THEN ytm_widen(p, target, scenario, compounding, f_lo, RMul(hi, Rat(3, 2)))
        ELSE [hi |-> hi, f_hi |-> f_hi]

\* "for _ in range(max_iter)" of yield_to_maturity, with left iterations to go
RECURSIVE ytm_bisect(_, _, _, _, _, _, _, _, _)
ytm_bisect(p, target, scenario, compounding, lo, f_lo, hi, tol, left) ==
    LET mid == RMul(Half, RAdd(lo, hi))
    IN  IF left = 0 THEN Solved(mid, FALSE)
        ELSE LET f_mid == RSub(price_from_yield(p, mid, scenario, compounding).val, target)
             IN  IF RLt(RAbs(f_mid), tol) THEN Solved(mid, TRUE)
                 ELSE IF ProductSign(f_lo, f_mid) <= 0
                      THEN ytm_bisect(p, target, scenario, compounding, lo, f_lo, mid, tol, left - 1)
                      ELSE ytm_bisect(p, target, scenario, compounding, mid, f_mid, hi, tol, left - 1)

\* CorporateBond.yield_to_maturity
yield_to_maturity(p, target_dirty_pv, scenario, compounding, lower, upper, tol, max_iter) ==
    IF RLe(target_dirty_pv, RZero) THEN Unsolved("ValueError")
    ELSE LET p_lo == price_from_yield(p, lower, scenario, compounding)
         IN  IF p_lo.err # "none" THEN Unsolved(p_lo.err)
             ELSE LET f_lo == RSub(p_lo.val, target_dirty_pv)
                      w == ytm_widen(p, target_dirty_pv, scenario, compounding, f_lo, upper)
                  IN  IF ProductSign(f_lo, w.f_hi) > 0 THEN Unsolved("ValueError")
                      ELSE ytm_bisect(p, target_dirty_pv, scenario, compounding,
                                      lower, f_lo, w.hi, tol, max_iter)

\* "while flo * fhi > 0.0 and hi < 5.0: hi *= 1.5; fhi = f(hi)" of option_adjusted_spread
RECURSIVE oas_widen(_, _, _, _, _)
oas_widen(b, target, scenario, flo, hi) ==
    LET fhi == RSub(price_with_oas(b, hi, scenario).val, target)
    IN  IF ProductSign(flo, fhi) > 0 /\ RLt(hi, BracketCap(TRUE))
        THEN oas_widen(b, target, scenario, flo, RMul(hi, Rat(3, 2)))
        ELSE [hi |-> hi, fhi |-> fhi]

\* "for _ in range(max_iter)" of option_adjusted_spread, with left iterations to go
RECURSIVE oas_bisect(_, _, _, _, _, _, _, _)
oas_bisect(b, target, scenario, lo, flo, hi, tol, left) ==
    LET mid == RMul(Half, RAdd(lo, hi))
    IN  IF left = 0 THEN Solved(mid, FALSE)
        ELSE LET fm == RSub(price_with_oas(b, mid, scenario).val, target)
             IN  IF RLt(RAbs(fm), tol) THEN Solved(mid, TRUE)
                 ELSE IF ProductSign(flo, fm) <= 0
                      THEN oas_bisect(b, target, scenario, lo, flo, mid, tol, left - 1)
                      ELSE oas_bisect(b, target, scenario, mid, fm, hi, tol, left - 1)

\* CallableFixedRateBond.option_adjusted_spread
option_adjusted_spread(b, target_dirty_price, scenario, lower, upper, tol, max_iter) ==
    IF RLe(target_dirty_price, RZero) THEN Unsolved("ValueError")
    ELSE LET p_lo == price_with_oas(b, lower, scenario)
         IN  IF p_lo.err # "none" THEN Unsolved(p_lo.err)
             ELSE LET flo == RSub(p_lo.val, target_dirty_price)
                      w == oas_widen(b, target_dirty_price, scenario, flo, upper)
                  IN  IF ProductSign(flo, w.fhi) > 0 THEN Unsolved("ValueError")
                      ELSE oas_bisect(b, target_dirty_price, scenario, lower, flo, w.hi,
                                      tol, max_iter)

(* Pricing corporate bonds and solving for yields and spreads: the inputs. *)

\* DeterministicForwardCurve.forward_rate
ForwardCurve_forward_rate(c, t0, t1) ==
    IF RLt(t0, RZero) THEN Raise("ValueError")
    ELSE IF t1 # NoneR /\ RLe(t1, t0) THEN Raise("ValueError")
    ELSE Ok(interp_zero_rate(c, t0))

ForwardCurveObj == [kind |-> "forward_curve", tenors |-> <<RInt(1), RInt(2)>>,
                    values |-> <<RInt(3), RInt(3)>>]

\* A scenario dict with a primary model and, possibly, a 'forward_model'.
CorpScenario(model, forward_model) == [model |-> model, forward_model |-> forward_model]

CorpScenarios ==
    {CorpScenario(m, f) : m \in {NoneObj, FlatCurve(2), SteepCurve},
                          f \in {NoneObj, ForwardCurveObj}}

\* (annual_cpr, periodic_prepayment_rate): no prepayment, a CPR of 3/4 (an SMM
\* of 1/2 over half a year), an explicit periodic rate of 1/2.
PrepaymentChoices == {<<RZero, NoneR>>, <<Rat(3, 4), NoneR>>, <<RZero, Half>>}

CorporateBond(n, m, ct, fr, dc, am, io, pp) ==
    [cls |-> "CorporateBond", notional |-> n, maturity_years |-> RInt(m),
     coupon_type |-> ct, fixed_rate |-> Half, spread |-> ROne, frequency |-> fr,
     day_count |-> dc, amortization_mode |-> am, custom_amortization |-> <<Half, Half>>,
     interest_only_periods |-> io, annual_cpr |-> pp[1], periodic_prepayment_rate |-> pp[2]]

CorporateBonds ==
    {CorporateBond(n, m, ct, fr, "30/360", am, io, pp) :
        n \in {RZero, ROne}, m \in 1..2, ct \in {"fixed", "floating", "zero"},
        fr \in {"annual", "semi_annual", "weekly"},
        am \in {"bullet", "linear", "custom"}, io \in 0..1, pp \in PrepaymentChoices}
    \cup {CorporateBond(ROne, 1, "fixed", "annual", dc, "bullet", 0, <<RZero, NoneR>>) :
              dc \in {"act/365", "act/act"}}

\* The bonds handed to the yield solver: annual payments, so that every
\* cashflow time is a whole number of years.
YieldBonds ==
    {[cls |-> "CorporateBond", notional |-> n, maturity_years |-> RInt(m),
      coupon_type |-> "fixed", fixed_rate |-> Half, spread |-> RZero, frequency |-> "annual",
      day_count |-> "30/360", amortization_mode |-> am, custom_amortization |-> <<>>,
      interest_only_periods |-> 0, annual_cpr |-> RZero,
      periodic_prepayment_rate |-> NoneR] :
        n \in {Rat(1, 8), ROne}, m \in 1..2, am \in {"bullet", "linear"}}

\* (compounding, lower, upper) of a yield_to_maturity call.  Continuously
\* compounded yields are in units of ln 2 and their bracket is cut at whole
\* numbers as long as MaxIter allows.
YieldBrackets ==
    {<<"annual", RZero, ROne>>, <<"annual", Rat(-1, 2), ROne>>,
     <<"continuous", RInt(-8), RInt(8)>>, <<"simple", RZero, ROne>>}

\* The bonds handed to the spread solver: one coupon a year.
SpreadBonds ==
    {b \in CallableBonds : /\ b.coupon_frequency = 1
                           /\ b.notional = ROne
                           /\ ~RLt(b.short_rate_volatility, RZero)}

MaxIter == 3          \* max_iter ranges over 1..MaxIter
TolChoices == {Rat(1, 32), Rat(1, 8)}
TargetPrices == {RZero, Rat(1, 8), Rat(3, 8), ROne, Rat(3, 2)}

\* yield_to_maturity followed by price_from_yield at the yield returned.
ytm_round_trip(p, target, scenario, br, tol, max_iter) ==
    LET x == yield_to_maturity(p, target, scenario, br[1], br[2], br[3], tol, max_iter)
    IN  [solved |-> x,
         repriced |-> IF x.err # "none" THEN Raise(x.err)
                      ELSE price_from_yield(p, x.val, scenario, br[1])]

\* option_adjusted_spread followed by price_with_oas at the spread returned.
oas_round_trip(b, target, scenario, lower, upper, tol, max_iter) ==
    LET x == option_adjusted_spread(b, target, scenario, lower, upper, tol, max_iter)
    IN  [solved |-> x,
         repriced |-> IF x.err # "none" THEN Raise(x.err)
                      ELSE price_with_oas(b, x.val, scenario)]

\* pv = bond.present_value(scenario), with the cashflow schedule behind it and
\* the PV of the same bond under the scenario without its 'forward_model'.
PriceCorporate(p, scenario, flows, pv, primary_pv) ==
    /\ bondCall.op = "none"
    /\ bondCall' = [op |-> "corporate_pv", product |-> p, scenario |-> scenario,
                    flows |-> flows, pv |-> pv, primary_pv |-> primary_pv]
    /\ UNCHANGED <<productVars, engineVars, curveVars, bootVars, lateVars, sensCall, csaCall, genCall>>

\* y = bond.yield_to_maturity(target, scenario, compounding=..., ...), then
\* bond.price_from_yield(y, scenario, compounding=...).
SolveYield(p, target, scenario, br, tol, max_iter, out) ==
    /\ bondCall.op = "none"
    /\ bondCall' = [op |-> "ytm", product |-> p, scenario |-> scenario, target |-> target,
                    compounding |-> br[1], lower |-> br[2], upper |-> br[3], tol |-> tol,
                    max_iter |-> max_iter, solved |-> out.solved, repriced |-> out.repriced]
    /\ UNCHANGED <<productVars, engineVars, curveVars, bootVars, lateVars, sensCall, csaCall, genCall>>

\* s = bond.option_adjusted_spread(target, scenario, lower, upper, tol,
\* max_iter), then bond.price_with_oas(s, scenario).
SolveSpread(b, target, scenario, lower, upper, tol, max_iter, out) ==
    /\ bondCall.op = "none"
    /\ bondCall' = [op |-> "oas", product |-> b, scenario |-> scenario, target |-> target,
                    lower |-> lower, upper |-> upper, tol |-> tol,
                    max_iter |-> max_iter, solved |-> out.solved, repriced |-> out.repriced]
    /\ UNCHANGED <<productVars, engineVars, curveVars, bootVars, lateVars, sensCall, csaCall, genCall>>

NextBonds ==
    \/ \E b \in CallableBonds : \E scenario \in BondScenarios :
           PriceCallable(b, scenario, CallableFixedRateBond_present_value(b, scenario),
                         FixedRateBond_present_value(Vanilla(b), scenario))
    \/ \E p \in CorporateBonds : \E scenario \in CorpScenarios :
           PriceCorporate(p, scenario, CorporateBond_get_cashflows(p, scenario),
                          CorporateBond_present_value(p, scenario),
                          CorporateBond_present_value(p, CorpScenario(scenario.model, NoneObj)))
    \/ \E p \in YieldBonds : \E target \in TargetPrices : \E br \in YieldBrackets :
           \E scenario \in {CorpScenario(NoneObj, NoneObj), CorpScenario(FlatCurve(2), NoneObj)} :
               \E tol \in TolChoices : \E max_iter \in 1..MaxIter :
                   SolveYield(p, target, scenario, br, tol, max_iter,
                              ytm_round_trip(p, target, scenario, br, tol, max_iter))
    \/ \E b \in SpreadBonds : \E target \in TargetPrices : \E scenario \in BondScenarios :
           \E tol \in TolChoices : \E max_iter \in 1..MaxIter :
               SolveSpread(b, target, scenario, RInt(-8), RInt(8), tol, max_iter,
                           oas_round_trip(b, target, scenario, RInt(-8), RInt(8), tol, max_iter))

-----------------------------------------------------------------------------
(* The sensitivity engine: engine/sensitivity.py.  A base scenario is a    *)
(* record of the five keys compute looks at; an absent key reads as None.  *)

SensScenario(model, foreign_model, forward_model, hazard_curve, fx_curve) ==
    [model |-> model, foreign_model |-> foreign_model, forward_model |-> forward_model,
     hazard_curve |-> hazard_curve, fx_curve |-> fx_curve]

SensKeys == {"model", "foreign_model", "forward_model", "hazard_curve", "fx_curve"}

\* isinstance(x, DeterministicZeroCurve) / isinstance(x, DeterministicForwardCurve)
IsZeroCurve(x) == x.kind = "zero_curve"
IsForwardCurve(x) == x.kind = "forward_curve"

\* DeterministicSensitivityEngine._product_pvs: label -> PV, in product order.
\* Labels of different positions differ, so every assignment adds a key.
sens_product_pvs(products_, scenario) ==
    LET pvs == [i \in 1..Len(products_) |-> present_value(products_[i], scenario)]
    IN  IF FirstErr(pvs) # "none" THEN [err |-> FirstErr(pvs), keys |-> <<>>, vals |-> <<>>]
        ELSE [err |-> "none",
              keys |-> [i \in 1..Len(products_) |-> Label(i - 1, products_[i])],
              vals |-> [i \in 1..Len(products_) |-> pvs[i].val]]

\* array + bump_bps / 10_000.0
ShiftBps(values, bump_bps) ==
    [i \in 1..Len(values) |-> RAdd(values[i], RDiv(bump_bps, RInt(10000)))]

\* DeterministicSensitivityEngine._bump_rate_curve
bump_rate_curve(scenario, key, bump_bps) ==
    [scenario EXCEPT ![key] = [kind |-> "zero_curve", tenors |-> @.tenors,
                               values |-> ShiftBps(@.values, bump_bps)]]

\* A forward bump that lands on the discounting curve when there is one.
bump_forward_source_Model(scenario, bump_bps) ==
    IF IsZeroCurve(scenario.model) THEN bump_rate_curve(scenario, "model", bump_bps)
    ELSE [scenario EXCEPT !.forward_model = [kind |-> @.kind, tenors |-> @.tenors,
                                             values |-> ShiftBps(@.values, bump_bps)]]

\* DeterministicSensitivityEngine._bump_forward_source
bump_forward_source(scenario, bump_bps) ==
    IF IsZeroCurve(scenario.forward_model)
    THEN [scenario EXCEPT !.forward_model = [kind |-> "zero_curve", tenors |-> @.tenors,
                                             values |-> ShiftBps(@.values, bump_bps)]]
    ELSE [scenario EXCEPT !.forward_model = [kind |-> "forward_curve", tenors |-> @.tenors,
                                             values |-> ShiftBps(@.values, bump_bps)]]

\* DeterministicSensitivityEngine._bump_hazard_curve
bump_hazard_curve(scenario, bump_bps) ==
    [scenario EXCEPT !.hazard_curve = [kind |-> "hazard_curve", tenors |-> @.tenors,
                                       values |-> ShiftBps(@.values, bump_bps)]]

\* DeterministicSensitivityEngine._bump_fx_curve
bump_fx_curve(scenario, bump_pct) ==
    [scenario EXCEPT !.fx_curve =
        [kind |-> "fx_curve", tenors |-> @.tenors,
         values |-> [i \in 1..Len(@.values) |-> RMul(@.values[i], RAdd(ROne, bump_pct))]]]

Metric(name, source, bump_size, shocked) ==
    [name |-> name, source |-> source, bump_size |-> bump_size, shocked |-> shocked]

\* The metrics list of compute, in the order of its five isinstance tests.
sens_metrics(base, rate_bump_bps, hazard_bump_bps, fx_bump_pct) ==
    (IF IsZeroCurve(base.model)
     THEN <<Metric("DV01", "model", rate_bump_bps,
                   bump_rate_curve(base, "model", rate_bump_bps))>> ELSE <<>>)
    \o (IF IsZeroCurve(base.foreign_model)
        THEN <<Metric("DV01_foreign", "foreign_model", rate_bump_bps,
                      bump_rate_curve(base, "foreign_model", rate_bump_bps))>> ELSE <<>>)
    \o (IF IsZeroCurve(base.forward_model) \/ IsForwardCurve(base.forward_model)
        THEN <<Metric("DV01_forward", "forward_model", rate_bump_bps,
                      bump_forward_source(base, rate_bump_bps))>> ELSE <<>>)
    \o (IF IsHazardCurve(base.hazard_curve)
        THEN <<Metric("CS01", "hazard_curve", hazard_bump_bps,
                      bump_hazard_curve(base, hazard_bump_bps))>> ELSE <<>>)
    \o (IF IsFXCurve(base.fx_curve)
        THEN <<Metric("FX_DELTA_1PCT", "fx_curve", fx_bump_pct,
                      bump_fx_curve(base, fx_bump_pct))>> ELSE <<>>)

\* A per-product difference without the division by the bump size.
sens_normalized_Raw(shocked_pv, base_pv_, bump_size) == RSub(shocked_pv, base_pv_)

\* normalized = raw / bump_size if bump_size != 0.0 else 0.0
sens_normalized(shocked_pv, base_pv_, bump_size) ==
    IF bump_size # RZero THEN RDiv(RSub(shocked_pv, base_pv_), bump_size) ELSE RZero

SensitivityResult(product_sensitivities, portfolio_sensitivities, metrics) ==
    [err |-> "none", product_sensitivities |-> product_sensitivities,
     portfolio_sensitivities |-> portfolio_sensitivities, metrics |-> metrics]

\* "for metric_name, _source, bump_size, shocked_scenario in metrics": the
\* outcome after the first n metrics.
RECURSIVE sens_loop(_, _, _, _)
sens_loop(products_, base_pvs, metrics, n) ==
    IF n = 0
    THEN SensitivityResult([keys |-> base_pvs.keys,
                            vals |-> [i \in 1..Len(base_pvs.keys) |-> EmptyDict]],
                           EmptyDict, <<>>)
    ELSE LET before == sens_loop(products_, base_pvs, metrics, n - 1)
             m == metrics[n]
             shocked_pvs == sens_product_pvs(products_, m.shocked)
             normalized == [i \in 1..Len(base_pvs.keys) |->
                               sens_normalized(Get(shocked_pvs, base_pvs.keys[i]),
                                               base_pvs.vals[i], m.bump_size)]
         IN  IF before.err # "none" THEN before
             ELSE IF shocked_pvs.err # "none" THEN [err |-> shocked_pvs.err]
             ELSE SensitivityResult(
                      [keys |-> before.product_sensitivities.keys,
                       vals |-> [i \in 1..Len(base_pvs.keys) |->
                                    Put(before.product_sensitivities.vals[i], m.name,
                                        normalized[i])]],
                      Put(before.portfolio_sensitivities, m.name, RSum(normalized)),
                      Append(before.metrics, m))

\* DeterministicSensitivityEngine.compute
DeterministicSensitivityEngine_compute(products_, base_scenario, rate_bump_bps, hazard_bump_bps, fx_bump_pct) ==
    LET base_pvs == sens_product_pvs(products_, base_scenario)
        metrics == sens_metrics(base_scenario, rate_bump_bps, hazard_bump_bps, fx_bump_pct)
    IN  IF base_pvs.err # "none" THEN [err |-> base_pvs.err]
        ELSE sens_loop(products_, base_pvs, metrics, Len(metrics))

(* Computing sensitivities: the inputs.  A rate or hazard bump of 10000 bp  *)
(* is one unit of ln 2; the products pay once a year.                       *)

FXForwardA == [cls |-> "FXForward", notional_foreign |-> RInt(1), strike |-> RInt(1),
               maturity_years |-> RInt(1), pay_foreign_receive_domestic |-> TRUE]
CDSA == [cls |-> "CreditDefaultSwap", notional |-> RInt(1), spread_bps |-> RInt(5000),
         maturity_years |-> RInt(1), payment_frequency |-> 1, recovery_rate |-> Half,
         protection_buyer |-> TRUE]

SensPortfolios == {<<>>, <<BondA>>, <<BondA, FXForwardA>>, <<CDSA, BondA, FXForwardA, BondA>>}

SensScenarios ==
    {SensScenario(m, f, w, h, x) :
        m \in {NoneObj, FlatCurve(2), FXCurveObj}, f \in {NoneObj, FlatCurve(0)},
        w \in {NoneObj, FlatCurve(2), ForwardCurveObj}, h \in {NoneObj, HazardCurveObj},
        x \in {NoneObj, FXCurveObj}}

RateBumps == {RZero, RInt(10000)}
FXBumps == {Rat(1, 100), ROne}

\* result = DeterministicSensitivityEngine(products).compute(base_scenario,
\* rate_bump_bps=..., hazard_bump_bps=..., fx_bump_pct=...); base_after is the
\* scenario dict the caller still holds, which compute never assigns into.
Compute(products_, base_scenario, rate_bump_bps, hazard_bump_bps, fx_bump_pct, out) ==
    /\ sensCall.op = "none"
    /\ sensCall' = [op |-> "compute", products |-> products_, base |-> base_scenario,
                    base_after |-> base_scenario, rate_bump_bps |-> rate_bump_bps,
                    hazard_bump_bps |-> hazard_bump_bps, fx_bump_pct |-> fx_bump_pct,
                    out |-> out]
    /\ UNCHANGED <<productVars, engineVars, curveVars, bootVars, lateVars, bondCall, csaCall, genCall>>

NextSensitivity ==
    \E products_ \in SensPortfolios : \E base_scenario \in SensScenarios :
        \E rate_bump_bps \in RateBumps : \E hazard_bump_bps \in RateBumps :
            \E fx_bump_pct \in FXBumps :
                Compute(products_, base_scenario, rate_bump_bps, hazard_bump_bps, fx_bump_pct,
                        DeterministicSensitivityEngine_compute(products_, base_scenario,
                            rate_bump_bps, hazard_bump_bps, fx_bump_pct))

-----------------------------------------------------------------------------
(* The CSA discounting engine: engine/collateral.py.                       *)

\* CSAConfig(netting_set_id, discount_model)
CSAConfig(netting_set_id, discount_model) ==
    [netting_set_id |-> netting_set_id, discount_model |-> discount_model]

CSAScenarioResult(unsecured_pv, secured_pv, netting_set_secured_pv) ==
    [unsecured_pv |-> unsecured_pv, secured_pv |-> secured_pv,
     netting_set_secured_pv |-> netting_set_secured_pv]

\* One pass of "for idx, product in enumerate(self.products)" (idx = n - 1),
\* from the totals after the products before it.
csa_product_step(before, product, idx, base_data, product_to_netting_set, csa_configs) ==
    LET unsecured == present_value(product, base_data)
        configured == /\ Has(product_to_netting_set, idx)
                      /\ Has(csa_configs, Get(product_to_netting_set, idx))
        ns_id == Get(product_to_netting_set, idx)
        secured_data == [base_data EXCEPT !.model = Get(csa_configs, ns_id).discount_model]
        secured == IF configured THEN present_value(product, secured_data) ELSE unsecured
    IN  IF before.err # "none" THEN before
        ELSE IF unsecured.err # "none" THEN [err |-> unsecured.err]
        ELSE IF secured.err # "none" THEN [err |-> secured.err]
        ELSE [err |-> "none",
              unsecured_total |-> RAdd(before.unsecured_total, unsecured.val),
              secured_total |-> RAdd(before.secured_total, secured.val),
              per_ns |-> IF configured
                         THEN Put(before.per_ns, ns_id,
                                  RAdd(Get(before.per_ns, ns_id), secured.val))
                         ELSE before.per_ns,
              rows |-> Append(before.rows,
                              [unsecured_pv |-> unsecured.val, secured_pv |-> secured.val])]

\* The product loop of value for one scenario, after the first n products.
RECURSIVE csa_product_loop(_, _, _, _, _)
csa_product_loop(products_, base_data, product_to_netting_set, csa_configs, n) ==
    IF n = 0
    THEN [err |-> "none", unsecured_total |-> RZero, secured_total |-> RZero,
          per_ns |-> [keys |-> csa_configs.keys,
                      vals |-> [i \in 1..Len(csa_configs.keys) |-> RZero]],
          rows |-> <<>>]
    ELSE csa_product_step(
             csa_product_loop(products_, base_data, product_to_netting_set, csa_configs, n - 1),
             products_[n], n - 1, base_data, product_to_netting_set, csa_configs)

\* "for scenario in scenarios" of value, after the first n scenarios: the
\* results dict, and the per-product PVs of each scenario in list order.
RECURSIVE csa_scenario_loop(_, _, _, _, _)
csa_scenario_loop(products_, scenarios, product_to_netting_set, csa_configs, n) ==
    IF n = 0 THEN [err |-> "none", results |-> EmptyDict, rows |-> <<>>]
    ELSE LET before == csa_scenario_loop(products_, scenarios, product_to_netting_set,
                                         csa_configs, n - 1)
             one == csa_product_loop(products_, scenario_data(scenarios[n]),
                                     product_to_netting_set, csa_configs, Len(products_))
         IN  IF before.err # "none" THEN before
             ELSE IF one.err # "none" THEN [err |-> one.err]
             ELSE [err |-> "none",
                   results |-> Put(before.results, scenarios[n].name,
                                   CSAScenarioResult(one.unsecured_total, one.secured_total,
                                                     one.per_ns)),
                   rows |-> Append(before.rows, one.rows)]

\* CSADiscountingEngine.value
CSADiscountingEngine_value(products_, scenarios, product_to_netting_set, csa_configs) ==
    csa_scenario_loop(products_, scenarios, product_to_netting_set, csa_configs,
                      Len(scenarios))

(* Valuing under CSAs: the inputs.  Scenario names within one call differ. *)

DictOf(keys, vals) == [keys |-> keys, vals |-> vals]

CSAPortfolios == {<<BondA>>, <<BondA, BondB>>, <<BondB, FXForwardA, BondA>>}

CSADataChoices ==
    {NoData, [NoData EXCEPT !.fx_curve = FXCurveObj], [NoData EXCEPT !.model = FlatCurve(0)]}

CSAScenarioLists ==
    {<<>>}
    \cup {<<Scenario("base", FlatCurve(2), d)>> : d \in CSADataChoices}
    \cup {<<Scenario("base", FlatCurve(2), d), Scenario("up", SteepCurve, e)>> :
              d \in CSADataChoices, e \in CSADataChoices}

\* product_to_netting_set: nothing mapped; the first product only; the first
\* two to different sets; the first to a set without configuration and the
\* third to a configured one.
NettingMaps ==
    {EmptyDict, DictOf(<<0>>, <<"ns_usd">>), DictOf(<<0, 1>>, <<"ns_usd", "ns_eur">>),
     DictOf(<<1, 0>>, <<"ns_usd", "ns_usd">>), DictOf(<<0, 2>>, <<"ns_chf", "ns_usd">>)}

CSAConfigChoices ==
    {EmptyDict,
     DictOf(<<"ns_usd">>, <<CSAConfig("ns_usd", FlatCurve(0))>>),
     DictOf(<<"ns_usd", "ns_eur">>,
            <<CSAConfig("ns_usd", FlatCurve(0)), CSAConfig("ns_eur", SteepCurve)>>),
     DictOf(<<"ns_usd">>, <<CSAConfig("ns_usd", NoneObj)>>)}

\* results = CSADiscountingEngine(products).value(scenarios,
\* product_to_netting_set, csa_configs)
CSAValue(products_, scenarios, product_to_netting_set, csa_configs, out) ==
    /\ csaCall.op = "none"
    /\ csaCall' = [op |-> "value", products |-> products_, scenarios |-> scenarios,
                   product_to_netting_set |-> product_to_netting_set,
                   csa_configs |-> csa_configs, out |-> out]
    /\ UNCHANGED <<productVars, engineVars, curveVars, bootVars, lateVars, bondCall, sensCall, genCall>>

NextCSA ==
    \E products_ \in CSAPortfolios : \E scenarios \in CSAScenarioLists :
        \E product_to_netting_set \in NettingMaps : \E csa_configs \in CSAConfigChoices :
            CSAValue(products_, scenarios, product_to_netting_set, csa_configs,
                     CSADiscountingEngine_value(products_, scenarios,
                                                product_to_netting_set, csa_configs))

-----------------------------------------------------------------------------
(* Deterministic scenario generators: engine/scenario.py.                  *)
(* An array lives at an address; a curve built by a generator is recorded  *)
(* with the addresses of its two arrays next to its values.                *)

\* The arrays of the generator's base curve.
BaseArrays == [tenors |-> 0, zero_rates |-> 1]

\* format(x, "+.0f"): the sign, then the value rounded to no decimals
\* (ties to even, as the float formatter rounds an exactly representable tie).
format_signed_0f(x) ==
    (IF RLt(x, RZero) THEN "-" ELSE "+") \o ToString(PyRound(RAbs(x)))

\* format(x, "g") for the quarters the model uses as pivots: no trailing zeros.
format_g(x) ==
    LET whole == RFloor(x)
        hundredths == RFloor(RMul(RSub(x, RInt(whole)), RInt(100)))
    IN  ToString(whole) \o (CASE hundredths = 0 -> ""
                              [] hundredths = 25 -> ".25"
                              [] hundredths = 50 -> ".5"
                              [] hundredths = 75 -> ".75")

\* zero_rates + scalar
np_add_scalar(xs, s) == [i \in 1..Len(xs) |-> RAdd(xs[i], s)]

\* One pass of the loop of DeterministicScenarioGenerator.generate, for the
\* k-th entry of shifts_bps; np.array(...) and "+" each allocate a new array.
parallel_scenario(base_curve, shifts_bps, k, first_free) ==
    LET shift == shifts_bps[k]
        shift_rate == RDiv(shift, RInt(10000))
        shifted == NewCurve("zero_curve", Arr(1, base_curve.tenors),
                            Arr(1, np_add_scalar(base_curve.values, shift_rate))).obj
    IN  [scenario |-> Scenario("parallel_shift_" \o format_signed_0f(shift) \o "bps",
                               shifted, NoData),
         arrays |-> [tenors |-> first_free + 3 * (k - 1),
                     zero_rates |-> first_free + 3 * (k - 1) + 2]]

\* DeterministicScenarioGenerator.generate
DeterministicScenarioGenerator_generate(base_curve, shifts_bps) ==
    LET pass == [k \in 1..Len(shifts_bps) |-> parallel_scenario(base_curve, shifts_bps, k, 2)]
    IN  [scenarios |-> [k \in 1..Len(shifts_bps) |-> pass[k].scenario],
         arrays |-> [k \in 1..Len(shifts_bps) |-> pass[k].arrays],
         base_curve |-> base_curve,
         next_free |-> 2 + 3 * Len(shifts_bps)]

\* np.max(np.abs(tenors - pivot))
RECURSIVE np_max_abs_diff(_, _, _)
np_max_abs_diff(tenors, pivot, n) ==
    IF n = 1 THEN RAbs(RSub(tenors[1], pivot))
    ELSE RMax(np_max_abs_diff(tenors, pivot, n - 1), RAbs(RSub(tenors[n], pivot)))

\* max(np.max(np.abs(tenors - self.twist_pivot_year)), 1e-8)
max_span(tenors, pivot) == RMax(np_max_abs_diff(tenors, pivot, Len(tenors)), Dust)

\* np.clip(x, lo, hi)
clip(x, lo, hi) == IF RLt(x, lo) THEN lo ELSE IF RLt(hi, x) THEN hi ELSE x

\* A profile measured from the first node instead of the pivot.
slope_profile_FromFirstNode(tenors, pivot) ==
    [i \in 1..Len(tenors) |->
        clip(RDiv(RSub(tenors[i], tenors[1]), max_span(tenors, pivot)), RInt(-1), ROne)]

\* np.clip((tenors - self.twist_pivot_year) / max_span, -1.0, 1.0)
slope_profile(tenors, pivot) ==
    [i \in 1..Len(tenors) |->
        clip(RDiv(RSub(tenors[i], pivot), max_span(tenors, pivot)), RInt(-1), ROne)]

\* One pass of the loop of _twist_scenarios, for the k-th entry of
\* twist_shifts_bps; every twisted curve holds the one copy of the tenors.
twist_scenario(base_curve, twist_shifts_bps, pivot, k, first_free) ==
    LET twist == twist_shifts_bps[k]
        twist_rate == RDiv(twist, RInt(10000))
        profile == slope_profile(base_curve.tenors, pivot)
        shifted == NewCurve("zero_curve", Arr(1, base_curve.tenors),
                            Arr(1, [i \in 1..Len(profile) |->
                                       RAdd(base_curve.values[i], RMul(twist_rate, profile[i]))])).obj
    IN  [scenario |-> Scenario("twist_" \o format_signed_0f(twist) \o "bps_pivot_"
                                   \o format_g(pivot) \o "y", shifted, NoData),
         arrays |-> [tenors |-> first_free, zero_rates |-> first_free + 2 * k + 1]]

\* DeterministicStressScenarioGenerator._twist_scenarios
twist_scenarios(base_curve, twist_shifts_bps, pivot, first_free) ==
    LET pass == [k \in 1..Len(twist_shifts_bps) |->
                    twist_scenario(base_curve, twist_shifts_bps, pivot, k, first_free)]
    IN  [scenarios |-> [k \in 1..Len(twist_shifts_bps) |-> pass[k].scenario],
         arrays |-> [k \in 1..Len(twist_shifts_bps) |-> pass[k].arrays]]

\* DeterministicStressScenarioGenerator.generate
DeterministicStressScenarioGenerator_generate(base_curve, parallel_shifts_bps, twist_shifts_bps, pivot) ==
    LET parallel == DeterministicScenarioGenerator_generate(base_curve, parallel_shifts_bps)
        twists == twist_scenarios(base_curve, twist_shifts_bps, pivot, parallel.next_free)
    IN  [scenarios |-> parallel.scenarios \o twists.scenarios,
         arrays |-> parallel.arrays \o twists.arrays,
         base_curve |-> base_curve]

MaxShifts == 2       \* shift lists have up to MaxShifts entries

\* Base curves, shifts in basis points (whole and fractional) and pivots
\* (below, on, between and beyond the nodes).
GenCurves == {FlatCurve(2), SteepCurve,
              ZeroCurve(<<RInt(1), RInt(3), RInt(5)>>, <<RInt(2), RInt(1), RInt(3)>>)}
ShiftValues == {RInt(-50), RZero, RInt(50), Half, Rat(-2, 5)}
TwistValues == {RInt(-25), RInt(25), RZero}
PivotValues == {Rat(1, 4), RInt(1), Rat(5, 4), RInt(2), RInt(5), RInt(6)}
ShiftLists == SeqsUpTo(ShiftValues, MaxShifts)
TwistLists == SeqsUpTo(TwistValues, MaxShifts)

\* gen = DeterministicScenarioGenerator(base_curve, shifts_bps); gen.generate()
GenerateParallel(base_curve, shifts_bps, out) ==
    /\ genCall.op = "none"
    /\ genCall' = [op |-> "parallel", base_curve |-> base_curve, shifts_bps |-> shifts_bps,
                   out |-> out]
    /\ UNCHANGED <<productVars, engineVars, curveVars, bootVars, lateVars, bondCall, sensCall, csaCall>>

\* gen = DeterministicStressScenarioGenerator(...); gen.generate()
GenerateStress(base_curve, parallel_shifts_bps, twist_shifts_bps, pivot, out) ==
    /\ genCall.op = "none"
    /\ genCall' = [op |-> "stress", base_curve |-> base_curve,
                   shifts_bps |-> parallel_shifts_bps,
                   twist_shifts_bps |-> twist_shifts_bps, twist_pivot_year |-> pivot,
                   out |-> out]
    /\ UNCHANGED <<productVars, engineVars, curveVars, bootVars, lateVars, bondCall, sensCall, csaCall>>

NextGenerators ==
    \/ \E base_curve \in GenCurves : \E shifts_bps \in ShiftLists :
           GenerateParallel(base_curve, shifts_bps,
                            DeterministicScenarioGenerator_generate(base_curve, shifts_bps))
    \/ \E base_curve \in GenCurves : \E ps \in SeqsUpTo({RZero, Half}, 1) :
           \E ts \in TwistLists : \E pivot \in PivotValues :
               GenerateStress(base_curve, ps, ts, pivot,
                              DeterministicStressScenarioGenerator_generate(base_curve, ps, ts, pivot))

-----------------------------------------------------------------------------
(* The two root finders, loop pass by loop pass:                           *)
(* CorporateBond.yield_to_maturity and                                     *)
(* CallableFixedRateBond.option_adjusted_spread.                           *)

\* The price the solver in progress compares with its target:
\* price_from_yield for a yield, price_with_oas for a spread.
solver_price(kind, inst, x, scenario, compounding) ==
    IF kind = "ytm" THEN price_from_yield(inst, x, scenario, compounding)
    ELSE price_with_oas(inst, x, scenario)

\* Whether the solver's unknown enters an exponential (and is in units of ln 2).
solver_in_ln2_units(kind, compounding) == kind = "oas" \/ compounding = "continuous"

\* No call in progress.
IdleSolver ==
    [pc |-> "idle", kind |-> "none", inst |-> NoneObj, target |-> RZero,
     scenario |-> NoneObj, compounding |-> "none", lower |-> RZero, upper |-> RZero,
     tol |-> RZero, max_iter |-> 0, lo |-> RZero, hi |-> RZero, f_lo |-> RZero,
     f_hi |-> RZero, iter |-> 0, widenings |-> 0, evaluated |-> {},
     result |-> Unsolved("pending")]

SolverDone(s, outcome) == [s EXCEPT !.pc = "done", !.result = outcome]

\* The call up to the loop: the target check, f(lo) and f(hi), p_lo and p_hi
\* being the prices at lower and upper.
SolverStart(kind, inst, target, scenario, compounding, lower, upper, tol, max_iter, p_lo, p_hi) ==
    /\ solver.pc = "idle"
    /\ LET s == [pc |-> "widen", kind |-> kind, inst |-> inst, target |-> target,
                 scenario |-> scenario, compounding |-> compounding,
                 lower |-> lower, upper |-> upper, tol |-> tol, max_iter |-> max_iter,
                 lo |-> lower, hi |-> upper, f_lo |-> RZero, f_hi |-> RZero,
                 iter |-> 0, widenings |-> 0, evaluated |-> {},
     result |-> Unsolved("pending")]
       IN  solver' =
               IF RLe(target, RZero) THEN SolverDone(s, Unsolved("ValueError"))
               ELSE IF p_lo.err # "none" THEN SolverDone(s, Unsolved(p_lo.err))
               ELSE [s EXCEPT !.f_lo = RSub(p_lo.val, target),
                              !.f_hi = RSub(p_hi.val, target),
                              !.evaluated = {lower, upper}]
    /\ UNCHANGED <<productVars, engineVars, curveVars, bootVars, bondCall, sensCall,
                   csaCall, genCall, hwCall, mortCall, swapCall>>

\* The widening loop's test: f_lo * f_hi > 0 and hi < 5.0
KeepsWidening(s) ==
    /\ ProductSign(s.f_lo, s.f_hi) > 0
    /\ RLt(s.hi, BracketCap(solver_in_ln2_units(s.kind, s.compounding)))

\* "hi *= 1.5" and the midpoint "0.5 * (lo + hi)" of the solver in progress
widened_hi == RMul(solver.hi, Rat(3, 2))
midpoint == RMul(Half, RAdd(solver.lo, solver.hi))

\* The solver in progress, about to make one more pass of its widening loop
\* (of its bisection loop).
Widening(kind, inst, scenario) ==
    /\ solver.pc = "widen"
    /\ solver.kind = kind /\ solver.inst = inst /\ solver.scenario = scenario
    /\ KeepsWidening(solver)
Bisecting(kind, inst, scenario) ==
    /\ solver.pc = "bisect"
    /\ solver.kind = kind /\ solver.inst = inst /\ solver.scenario = scenario
    /\ solver.iter < solver.max_iter

\* "hi *= 1.5; f_hi = f(hi)", p_hi being the price at the new hi.  The passes
\* of the loop are counted modulo 2.
widened(hi, p_hi) ==
    [solver EXCEPT !.hi = hi, !.f_hi = RSub(p_hi.val, solver.target),
                   !.widenings = (@ + 1) % 2, !.evaluated = @ \cup {hi}]

\* The body of "for _ in range(max_iter)", p_mid being the price at mid.
bisected(mid, p_mid) ==
    LET f_mid == RSub(p_mid.val, solver.target)
        seen == [solver EXCEPT !.iter = @ + 1, !.evaluated = @ \cup {mid}]
    IN  IF RLt(RAbs(f_mid), solver.tol) THEN SolverDone(seen, Solved(mid, TRUE))
        ELSE IF ProductSign(solver.f_lo, f_mid) <= 0
             THEN [seen EXCEPT !.hi = mid, !.f_hi = f_mid]
             ELSE [seen EXCEPT !.lo = mid, !.f_lo = f_mid]

\* One pass of "while f_lo * f_hi > 0 and hi < 5.0" of yield_to_maturity
WidenYield(p, scenario, hi, p_hi) ==
    /\ Widening("ytm", p, scenario)
    /\ hi = widened_hi
    /\ solver' = widened(hi, p_hi)
    /\ UNCHANGED <<productVars, engineVars, curveVars, bootVars, bondCall, sensCall,
                   csaCall, genCall, hwCall, mortCall, swapCall>>

\* One pass of "while flo * fhi > 0.0 and hi < 5.0" of option_adjusted_spread
WidenSpread(b, scenario, hi, p_hi) ==
    /\ Widening("oas", b, scenario)
    /\ hi = widened_hi
    /\ solver' = widened(hi, p_hi)
    /\ UNCHANGED <<productVars, engineVars, curveVars, bootVars, bondCall, sensCall,
                   csaCall, genCall, hwCall, mortCall, swapCall>>

\* The loop's test fails: "if f_lo * f_hi > 0: raise ValueError", else on to
\* the bisection.
LeaveWiden ==
    /\ solver.pc = "widen"
    /\ ~KeepsWidening(solver)
    /\ solver' = IF ProductSign(solver.f_lo, solver.f_hi) > 0
                 THEN SolverDone(solver, Unsolved("ValueError"))
                 ELSE [solver EXCEPT !.pc = "bisect"]
    /\ UNCHANGED <<productVars, engineVars, curveVars, bootVars, bondCall, sensCall,
                   csaCall, genCall, hwCall, mortCall, swapCall>>

\* One pass of "for _ in range(max_iter)" of yield_to_maturity
BisectYield(p, scenario, mid, p_mid) ==
    /\ Bisecting("ytm", p, scenario)
    /\ mid = midpoint
    /\ solver' = bisected(mid, p_mid)
    /\ UNCHANGED <<productVars, engineVars, curveVars, bootVars, bondCall, sensCall,
                   csaCall, genCall, hwCall, mortCall, swapCall>>

\* One pass of "for _ in range(max_iter)" of option_adjusted_spread
BisectSpread(b, scenario, mid, p_mid) ==
    /\ Bisecting("oas", b, scenario)
    /\ mid = midpoint
    /\ solver' = bisected(mid, p_mid)
    /\ UNCHANGED <<productVars, engineVars, curveVars, bootVars, bondCall, sensCall,
                   csaCall, genCall, hwCall, mortCall, swapCall>>

\* The for loop is exhausted: "return 0.5 * (lo + hi)"
LeaveBisect ==
    /\ solver.pc = "bisect"
    /\ solver.iter = solver.max_iter
    /\ solver' = SolverDone(solver, Solved(midpoint, FALSE))
    /\ UNCHANGED <<productVars, engineVars, curveVars, bootVars, bondCall, sensCall,
                   csaCall, genCall, hwCall, mortCall, swapCall>>

(* The calls the solvers are driven with.  Annually compounded yields are   *)
(* plain numbers and every price is an exact fraction; a spread is in units *)
(* of ln 2 and is only ever evaluated at whole numbers.                     *)

\* The default bracket of yield_to_maturity
DefaultLower == Rat(-1, 20)
DefaultUpper == ROne

\* Bonds with one payment a year, priced off a flat curve or no curve at all.
StepYieldBonds == {p \in YieldBonds : p.notional = ROne}
StepYieldScenarios == {CorpScenario(FlatCurve(2), NoneObj), CorpScenario(NoneObj, NoneObj)}

\* (lower, upper) with annual compounding: the defaults, a bracket that
\* starts at zero, one that starts above the cap, and ones whose upper end is 0.
StepYieldBrackets ==
    {<<DefaultLower, DefaultUpper>>, <<RZero, ROne>>, <<RZero, RInt(6)>>,
     <<RZero, RZero>>, <<DefaultLower, RZero>>}
StepYieldTargets ==
    {RZero, Rat(1, 8), Rat(31, 125), Rat(3, 8), ROne, Rat(3, 2), RInt(2)}

\* Callable bonds of one or two annual coupons and nonnegative volatility.
StepSpreadBonds ==
    {b \in SpreadBonds : b.maturity_years \in {RInt(1), RInt(2)}}
StepSpreadScenarios ==
    {ScenarioDict(m, NoneObj, NoneObj, NoneObj) : m \in {FlatCurve(0), FlatCurve(2), NoneObj}}

\* (lower, upper, max_iter): full brackets, brackets whose upper end is 0, and
\* one that widens 4 -> 6 -> 9, bisected once.
StepSpreadBrackets ==
    {<<RInt(-8), RInt(8), k>> : k \in 1..MaxIter}
    \cup {<<RInt(-8), RZero, k>> : k \in 1..MaxIter}
    \cup {<<RInt(-8), RInt(4), 1>>}

\* The target of a spread call: a fixed price for the brackets that do not
\* widen (pick 1, 2: 1/8 or 1; pick 3, 4: 0 or 2); for the widening one, the
\* bond's price at a spread of 5 (bracketed after one widening) or of 12
\* (never bracketed).
StepSpreadTarget(b, scenario, br, pick) ==
    IF br[2] = RInt(4)
    THEN price_with_oas(b, RInt(IF pick % 2 = 1 THEN 5 ELSE 12), scenario).val
    ELSE CASE pick = 1 -> Rat(1, 8) [] pick = 2 -> ROne [] pick = 3 -> RZero [] OTHER -> RInt(2)

\* yield_to_maturity(target, scenario, compounding="annual", lower, upper, tol, max_iter)
StartYield(p, target, scenario, lower, upper, tol, max_iter, p_lo, p_hi) ==
    SolverStart("ytm", p, target, scenario, "annual", lower, upper, tol, max_iter, p_lo, p_hi)

\* option_adjusted_spread(target, scenario, lower, upper, tol, max_iter)
StartSpread(b, target, scenario, lower, upper, tol, max_iter, p_lo, p_hi) ==
    SolverStart("oas", b, target, scenario, "continuous", lower, upper, tol, max_iter, p_lo, p_hi)

MaxWidenings == 4    \* a bracket is widened at most MaxWidenings times before hi >= 5.0

\* Every value a widening can give hi (the hi before it was below the cap),
\* and every midpoint MaxIter bisections can reach from a bracket.
WidenedValues(brackets, in_ln2_units) ==
    {hi \in {RMul(br[2], RPowInt(Rat(3, 2), k)) : br \in brackets, k \in 1..MaxWidenings} :
        RLt(hi, RMul(BracketCap(in_ln2_units), Rat(3, 2)))}
MidValues(brackets, in_ln2_units) ==
    {RAdd(br[1], RMul(RSub(hi, br[1]), Rat(j, Pow2F[MaxIter]))) :
        br \in brackets,
        hi \in {b[2] : b \in brackets} \cup WidenedValues(brackets, in_ln2_units),
        j \in 1..(Pow2F[MaxIter] - 1)}

\* The whole numbers among them: the spreads the model can price at.
Whole(S) == {x \in S : x[2] = 1}

YieldWidenings == WidenedValues(StepYieldBrackets, FALSE)
YieldMidpoints == MidValues(StepYieldBrackets, FALSE)
SpreadWidenings == Whole(WidenedValues(StepSpreadBrackets, TRUE))
SpreadMidpoints == Whole(MidValues(StepSpreadBrackets, TRUE))

\* A call in progress makes the next pass of its loop, or leaves the loop.
SolverRuns ==
    \/ \E p \in StepYieldBonds : \E scenario \in StepYieldScenarios :
           \E hi \in YieldWidenings :
               WidenYield(p, scenario, hi, price_from_yield(p, hi, scenario, "annual"))
    \/ \E b \in StepSpreadBonds : \E scenario \in StepSpreadScenarios :
           \E hi \in SpreadWidenings :
               WidenSpread(b, scenario, hi, price_with_oas(b, hi, scenario))
    \/ LeaveWiden
    \/ \E p \in StepYieldBonds : \E scenario \in StepYieldScenarios :
           \E mid \in YieldMidpoints :
               BisectYield(p, scenario, mid, price_from_yield(p, mid, scenario, "annual"))
    \/ \E b \in StepSpreadBonds : \E scenario \in StepSpreadScenarios :
           \E mid \in SpreadMidpoints :
               BisectSpread(b, scenario, mid, price_with_oas(b, mid, scenario))
    \/ LeaveBisect

\* The prices of the calls' instruments at every point a solver can reach,
\* as (kind, instrument, scenario, point, price).
SolverPrices ==
    {<<"ytm", p, scenario, x, price_from_yield(p, x, scenario, "annual")>> :
        p \in StepYieldBonds, scenario \in StepYieldScenarios,
        x \in YieldWidenings \cup YieldMidpoints}
    \cup {<<"oas", b, scenario, x, price_with_oas(b, x, scenario)>> :
        b \in StepSpreadBonds, scenario \in StepSpreadScenarios,
        x \in SpreadWidenings \cup SpreadMidpoints}
solver_price_at(x) ==
    (CHOOSE r \in SolverPrices :
        /\ r[1] = solver.kind /\ r[2] = solver.inst
        /\ r[3] = solver.scenario /\ r[4] = x)[5]

\* The step a call in progress takes next: the loop actions above, applied to
\* the call's own instrument, scenario and next point.
SolverContinues ==
    \/ /\ solver.pc = "widen" /\ solver.kind = "ytm"
       /\ WidenYield(solver.inst, solver.scenario, widened_hi, solver_price_at(widened_hi))
    \/ /\ solver.pc = "widen" /\ solver.kind = "oas"
       /\ WidenSpread(solver.inst, solver.scenario, widened_hi, solver_price_at(widened_hi))
    \/ LeaveWiden
    \/ /\ solver.pc = "bisect" /\ solver.kind = "ytm"
       /\ BisectYield(solver.inst, solver.scenario, midpoint, solver_price_at(midpoint))
    \/ /\ solver.pc = "bisect" /\ solver.kind = "oas"
       /\ BisectSpread(solver.inst, solver.scenario, midpoint, solver_price_at(midpoint))
    \/ LeaveBisect

NextSolver ==
    \/ \E p \in StepYieldBonds : \E scenario \in StepYieldScenarios :
           \E br \in StepYieldBrackets : \E target \in StepYieldTargets :
               \E tol \in TolChoices : \E max_iter \in 1..MaxIter :
                   StartYield(p, target, scenario, br[1], br[2], tol, max_iter,
                               price_from_yield(p, br[1], scenario, "annual"),
                               price_from_yield(p, br[2], scenario, "annual"))
    \/ \E b \in StepSpreadBonds : \E scenario \in StepSpreadScenarios :
           \E br \in StepSpreadBrackets : \E pick \in 1..4 : \E tol \in TolChoices :
               StartSpread(b, StepSpreadTarget(b, scenario, br, pick), scenario,
                           br[1], br[2], tol, br[3],
                           price_with_oas(b, br[1], scenario), price_with_oas(b, br[2], scenario))
    \/ SolverRuns

-----------------------------------------------------------------------------
(* The lattice of a callable bond, step by step, and the same bond priced  *)
(* with no call schedule and with one call date more.                      *)

\* The lattice's values at time step i: the notional at step n, and one pass
\* of "for i in range(n - 1, -1, -1)" below that.
RECURSIVE lattice_values(_, _, _, _)
lattice_values(b, model, oas, i) ==
    LET n == PeriodCount(b.maturity_years, b.coupon_frequency)
    IN  IF i >= n THEN [k \in 1..(n + 1) |-> b.notional]
        ELSE lattice_step(b, model, oas, lattice_values(b, model, oas, i + 1), i)

\* The bond with another call schedule, everything else the same.
WithCallSchedule(b, call_schedule) == [b EXCEPT !.call_schedule = call_schedule]

\* Call schedules of up to two dates at prices 0, 1 and 2, on the coupon
\* dates 1 and 2, and a further call date: a coupon date, the valuation date
\* or a date between coupons.
CallEntries == {<<RInt(t), RInt(c)>> : t \in 1..2, c \in 0..2}
LatticeSchedules ==
    {<<>>} \cup {<<e>> : e \in CallEntries}
           \cup {<<e, f>> : e \in {<<RInt(1), RInt(1)>>, <<RInt(1), RInt(2)>>},
                            f \in {<<RInt(2), RInt(0)>>, <<RInt(2), RInt(1)>>}}
FurtherCalls == CallEntries \cup {<<RZero, RZero>>, <<Rat(3, 2), RZero>>}
LatticeBonds ==
    {[cls |-> "CallableFixedRateBond", notional |-> ROne, coupon_rate |-> Half,
      maturity_years |-> RInt(m), coupon_frequency |-> 1, call_schedule |-> cs,
      short_rate_volatility |-> RInt(v)] :
        m \in 1..2, cs \in LatticeSchedules, v \in (-1)..1}
LatticeScenarios ==
    {ScenarioDict(m, NoneObj, NoneObj, NoneObj) : m \in {FlatCurve(0), FlatCurve(2), SteepCurve}}
LatticeSpreads == {RInt(-1), RZero, RInt(1)}

\* price_with_oas(oas, scenario) of the bond, of the bond with an empty call
\* schedule and of the bond with one more call date, and the lattice behind
\* the first price (lattice[i + 1] the values at step i).
PriceOnLattice(b, further, oas, scenario, price, plain, more, lattice) ==
    /\ bondCall.op = "none"
    /\ \A e \in 1..Len(b.call_schedule) : b.call_schedule[e][1] # further[1]
    /\ bondCall' = [op |-> "price_with_oas", product |-> b, further |-> further,
                    oas |-> oas, scenario |-> scenario, price |-> price,
                    plain |-> plain, more |-> more, lattice |-> lattice]
    /\ UNCHANGED <<productVars, engineVars, curveVars, bootVars, lateVars, sensCall,
                   csaCall, genCall>>

NextLattice ==
    \E b \in LatticeBonds : \E further \in FurtherCalls : \E oas \in LatticeSpreads :
        \E scenario \in LatticeScenarios :
            PriceOnLattice(b, further, oas, scenario,
                price_with_oas(b, oas, scenario),
                price_with_oas(WithCallSchedule(b, <<>>), oas, scenario),
                price_with_oas(WithCallSchedule(b, Append(b.call_schedule, further)), oas, scenario),
                [k \in 1..(PeriodCount(b.maturity_years, b.coupon_frequency) + 1) |->
                    lattice_values(b, scenario.model, oas, k - 1)])

-----------------------------------------------------------------------------
(* Cross-currency swaps with notional resets: the inputs and the call.     *)

\* FX curves that rise, fall and stay level over the swap's life.
FXCurveOf(tenors, levels) == [kind |-> "fx_curve", tenors |-> tenors, values |-> levels]
ResetFXCurves ==
    {FXCurveOf(<<RZero, RInt(2)>>, <<RInt(1), RInt(3)>>),
     FXCurveOf(<<RZero, RInt(2)>>, <<RInt(2), RInt(1)>>),
     FXCurveOf(<<RInt(1), RInt(2)>>, <<RInt(2), RInt(2)>>)}
ResetScenarios ==
    {ScenarioDict(FlatCurve(2), FlatCurve(0), fx, NoneObj) : fx \in ResetFXCurves \cup {NoneObj}}
ResetSwaps ==
    {[cls |-> "CrossCurrencySwap", domestic_notional |-> RInt(n), foreign_notional |-> RInt(3),
      maturity_years |-> Rat(m, 2), domestic_frequency |-> 1, foreign_frequency |-> f,
      domestic_fixed_rate |-> Half, foreign_fixed_rate |-> fixed,
      domestic_spread |-> RZero, foreign_spread |-> Half,
      pay_domestic_receive_foreign |-> side, exchange_notionals |-> exch,
      mark_to_market |-> mtm] :
        n \in {-1, 1, 2}, m \in 1..MaxHalfYears, f \in 1..2, fixed \in {NoneR, Half},
        side \in BOOLEAN, exch \in BOOLEAN, mtm \in BOOLEAN}

\* legs = swap.leg_cashflows(scenario)
LegCashflows(p, scenario, legs) ==
    /\ swapCall.op = "none"
    /\ swapCall' = [op |-> "leg_cashflows", product |-> p, scenario |-> scenario,
                    legs |-> legs]
    /\ UNCHANGED <<productVars, engineVars, curveVars, bootVars, bondCall, sensCall,
                   csaCall, genCall, solver, hwCall, mortCall>>

NextSwapLegs ==
    \E p \in ResetSwaps : \E scenario \in ResetScenarios :
        LegCashflows(p, scenario, CrossCurrencySwap_leg_dict(p, scenario))

-----------------------------------------------------------------------------
(* Mortgages: products/mortgage.py and products/mortgage_integration.py.   *)
(* A CPR model's incentive_slope is in units of ln 2.                      *)

\* x <= 1e-8, for x = n/d with d > 0: n * 10^8 <= d
AtMostDust(x) == x[1] <= x[2] \div Dust[2]

\* _FREQ_TO_MONTHS.get(frequency): 0 stands for None.
FREQ_TO_MONTHS(frequency) ==
    CASE frequency = "monthly" -> 1
      [] frequency = "quarterly" -> 3
      [] frequency = "annual" -> 12
      [] OTHER -> 0

\* BehaviouralPrepaymentModel.cpr and CleanRoomBehaviouralPrepayment.annual_cpr
behavioural_cpr(m, fixed_rate, refinance_rate, age_years, maturity_years, month_index) ==
    IF RLe(maturity_years, RZero) THEN Raise("ValueError")
    ELSE IF ~(1 <= month_index /\ month_index <= 12) THEN Raise("ValueError")
    ELSE LET incentive == RMax(RZero, RSub(fixed_rate, refinance_rate))
             incentive_component == RSub(ROne, ExpNeg(RMul(m.incentive_slope, incentive)))
             age_component ==
                 RMin(ROne, RMax(RZero, RDiv(RMul(m.age_slope, age_years), maturity_years)))
             seasonality_component ==
                 RMax(RZero, RSub(m.seasonality_factors[month_index], ROne))
             combined ==
                 RAdd(RAdd(RAdd(m.base_cpr, RMul(m.incentive_weight, incentive_component)),
                           RMul(m.age_weight, age_component)),
                      RMul(m.seasonality_weight, seasonality_component))
         IN  Ok(RMin(m.max_cpr, RMax(m.min_cpr, combined)))

\* prepayment_model.annual_cpr(...) of the integrated products
annual_cpr(m, fixed_rate, refinance_rate, age_years, maturity_years, month_index) ==
    IF m.cls = "ConstantCPRPrepayment" THEN Ok(RMax(RZero, m.cpr))
    ELSE behavioural_cpr(m, fixed_rate, refinance_rate, age_years, maturity_years, month_index)

\* _annuity_payment of both implementations
annuity_payment(notional, rate_per_period, periods, interest_only_periods) ==
    LET amort_periods == periods - interest_only_periods
    IN  IF amort_periods <= 0 THEN RZero
        ELSE IF rate_per_period = RZero THEN RDiv(notional, RInt(amort_periods))
        ELSE RDiv(RMul(notional, rate_per_period),
                  RSub(ROne, RDiv(ROne, RPowInt(RAdd(ROne, rate_per_period), amort_periods))))

\* int(round(years * 12 / months_per_period))
MonthsToPeriods(years, months_per_period) ==
    PyRound(RDiv(RMul(years, RInt(12)), RInt(months_per_period)))

\* No row: the call raised e.
NoSchedule(e) == [err |-> e, rows |-> <<>>]

\* GermanFixedRateMortgageLoan._prepayment_amount: the amount, with the month
\* handed to the CPR model.
German_prepayment_amount(loan, model, t0, t1, period_idx, outstanding_after_sched) ==
    IF loan.prepayment_model = NoneObj \/ RLe(outstanding_after_sched, RZero)
    THEN [err |-> "none", val |-> RZero, month |-> 0, annual_cpr |-> RZero, smm |-> RZero]
    ELSE LET remaining == RMax(Rat(1, 1000000), RSub(loan.maturity_years, t0))
             refinance_rate == forward_rate(model, t0, RMin(loan.maturity_years, RAdd(t0, remaining)))
             month == (((loan.start_month - 1) + period_idx - 1) % 12) + 1
             cpr == behavioural_cpr(loan.prepayment_model, loan.fixed_rate, refinance_rate.val,
                                    t0, loan.maturity_years, month)
             dt == RMax(Dust, RSub(t1, t0))
             smm == RSub(ROne, PowDt(RSub(ROne, cpr.val), dt))
         IN  IF refinance_rate.err # "none"
             THEN [err |-> refinance_rate.err, val |-> RZero, month |-> 0,
                   annual_cpr |-> RZero, smm |-> RZero]
             ELSE IF cpr.err # "none"
             THEN [err |-> cpr.err, val |-> RZero, month |-> month,
                   annual_cpr |-> RZero, smm |-> RZero]
             ELSE [err |-> "none", val |-> RMul(outstanding_after_sched, smm),
                   month |-> month, annual_cpr |-> cpr.val, smm |-> smm]

\* The prepayment paid as the model gives it, with no cap at the balance.
capped_prepayment_Uncapped(post_sched_balance, prepay) == prepay

\* "prepay = min(post_sched_balance, prepay)"
capped_prepayment(post_sched_balance, prepay) == RMin(post_sched_balance, prepay)

\* One pass of "for i in range(1, periods + 1)" of _expected_cashflows, from
\* the balance the period starts with.
German_period(loan, model, periods, interest_only_periods, i, balance) ==
    LET dt == Rat(FREQ_TO_MONTHS(loan.payment_frequency), 12)
        rate_per_period == RMul(loan.fixed_rate, dt)
        t0 == RMul(RInt(i - 1), dt)
        t1 == RMul(RInt(i), dt)
        interest_cf == RMul(balance, rate_per_period)
        due ==
            IF i <= interest_only_periods THEN Ok(RZero)
            ELSE IF loan.repayment_type = "annuity"
            THEN Ok(RMax(RZero, RSub(annuity_payment(loan.notional, rate_per_period, periods,
                                                     interest_only_periods), interest_cf)))
            ELSE IF loan.repayment_type = "constant_repayment"
            THEN Ok(RDiv(loan.notional, RInt(IF periods - interest_only_periods > 1
                                             THEN periods - interest_only_periods ELSE 1)))
            ELSE IF loan.repayment_type = "interest_only_then_amortizing"
            THEN Ok(RDiv(balance, RInt(IF periods - i + 1 > 1 THEN periods - i + 1 ELSE 1)))
            ELSE Raise("ValueError")
        sched == RMin(balance, due.val)
        post_sched_balance == RSub(balance, sched)
        prepayment == German_prepayment_amount(loan, model, t0, t1, i, post_sched_balance)
        prepay == capped_prepayment(post_sched_balance, prepayment.val)
    IN  IF due.err # "none" THEN [err |-> due.err]
        ELSE IF prepayment.err # "none" THEN [err |-> prepayment.err]
        ELSE [err |-> "none", period_index |-> i, t0 |-> t0, t1 |-> t1,
              begin_balance |-> balance, interest_cashflow |-> interest_cf,
              scheduled_principal |-> sched, prepayment |-> prepay,
              total_cashflow |-> RAdd(RAdd(interest_cf, sched), prepay),
              end_balance |-> RSub(post_sched_balance, prepay),
              annual_cpr |-> prepayment.annual_cpr, smm |-> prepayment.smm,
              month |-> prepayment.month]

\* The periods 1..i of the loop: it stops at the first exception and breaks
\* when the balance is at most 1e-8.
RECURSIVE German_periods(_, _, _, _, _)
German_periods(loan, model, periods, interest_only_periods, i) ==
    IF i = 0 THEN NoSchedule("none")
    ELSE LET before == German_periods(loan, model, periods, interest_only_periods, i - 1)
             balance == IF i = 1 THEN loan.notional
                        ELSE before.rows[Len(before.rows)].end_balance
         IN  IF before.err # "none" \/ Len(before.rows) < i - 1 \/ AtMostDust(balance)
             THEN before
             ELSE LET row == German_period(loan, model, periods, interest_only_periods, i, balance)
                  IN  IF row.err # "none" THEN [err |-> row.err, rows |-> before.rows]
                      ELSE [err |-> "none", rows |-> Append(before.rows, row)]

\* GermanFixedRateMortgageLoan._expected_cashflows: the cashflows, with the
\* periods behind them and the balance left after the last one.
GermanFixedRateMortgageLoan_expected_cashflows(loan, model) ==
    LET months_per_period == FREQ_TO_MONTHS(loan.payment_frequency)
        Failed(e) == [err |-> e, cfs |-> <<>>, rows |-> <<>>, balance |-> RZero]
    IN  IF months_per_period = 0 THEN Failed("ValueError")
        ELSE IF RLe(loan.maturity_years, RZero) THEN Failed("ValueError")
        ELSE IF RLe(loan.notional, RZero) THEN Failed("ValueError")
        ELSE IF loan.start_month < 1 \/ loan.start_month > 12 THEN Failed("ValueError")
        ELSE IF Upper(loan.day_count) \notin {"30/360", "ACT/365"} THEN Failed("ValueError")
        ELSE LET periods == MonthsToPeriods(loan.maturity_years, months_per_period)
                 dt == Rat(months_per_period, 12)
                 interest_only_periods == MonthsToPeriods(loan.interest_only_years, months_per_period)
                 done == German_periods(loan, model, periods, interest_only_periods,
                                        IF periods > 0 THEN periods ELSE 0)
                 balance == IF done.rows = <<>> THEN loan.notional
                            ELSE done.rows[Len(done.rows)].end_balance
                 regular == [k \in 1..Len(done.rows) |->
                                Cashflow(done.rows[k].t1, done.rows[k].total_cashflow)]
             IN  IF done.err # "none" THEN Failed(done.err)
                 ELSE [err |-> "none", rows |-> done.rows, balance |-> balance,
                       cfs |-> IF ~AtMostDust(balance)
                               THEN Append(regular, Cashflow(RMul(RInt(periods), dt), balance))
                               ELSE regular]

\* GermanFixedRateMortgageLoan.get_cashflows
GermanFixedRateMortgageLoan_get_cashflows(loan, scenario) ==
    IF ~IsRateModel(scenario.model)
    THEN [err |-> "TypeError", cfs |-> <<>>, rows |-> <<>>, balance |-> RZero]
    ELSE GermanFixedRateMortgageLoan_expected_cashflows(loan, scenario.model)

\* GermanFixedRateMortgageLoan.present_value
GermanFixedRateMortgageLoan_present_value(loan, scenario) ==
    IF ~IsRateModel(scenario.model) THEN Raise("TypeError")
    ELSE DiscountedSum(scenario.model,
                       GermanFixedRateMortgageLoan_expected_cashflows(loan, scenario.model))

-----------------------------------------------------------------------------
(* The integrated mortgage products: MortgageCashflowGenerator and its     *)
(* wrappers.                                                               *)

\* MortgageConfig.validate
MortgageConfig_validate(cfg) ==
    IF RLe(cfg.notional, RZero) THEN "ValueError"
    ELSE IF RLe(cfg.maturity_years, RZero) THEN "ValueError"
    ELSE IF FREQ_TO_MONTHS(cfg.payment_frequency) = 0 THEN "ValueError"
    ELSE IF cfg.start_month < 1 \/ cfg.start_month > 12 THEN "ValueError"
    ELSE IF Upper(cfg.day_count) \notin {"30/360", "ACT/365"} THEN "ValueError"
    ELSE "none"

\* _scheduled_principal without its interest-only test.
Generator_scheduled_principal_IgnoresInterestOnly(repayment_type, i, periods, interest_only_periods, annuity, interest_cf, const_principal, balance) ==
    IF repayment_type = "annuity" THEN Ok(RMax(RZero, RSub(annuity, interest_cf)))
    ELSE IF repayment_type = "constant_repayment" THEN Ok(const_principal)
    ELSE IF repayment_type = "interest_only_then_amortizing"
    THEN Ok(RDiv(balance, RInt(IF periods - i + 1 > 1 THEN periods - i + 1 ELSE 1)))
    ELSE Raise("ValueError")

\* MortgageCashflowGenerator._scheduled_principal
Generator_scheduled_principal(repayment_type, i, periods, interest_only_periods, annuity, interest_cf, const_principal, balance) ==
    IF i <= interest_only_periods THEN Ok(RZero)
    ELSE IF repayment_type = "annuity" THEN Ok(RMax(RZero, RSub(annuity, interest_cf)))
    ELSE IF repayment_type = "constant_repayment" THEN Ok(const_principal)
    ELSE IF repayment_type = "interest_only_then_amortizing"
    THEN Ok(RDiv(balance, RInt(IF periods - i + 1 > 1 THEN periods - i + 1 ELSE 1)))
    ELSE Raise("ValueError")

\* One pass of "for i in range(1, periods + 1)" of generate_schedule: the
\* MortgagePeriodBreakdown of period i, with the month handed to the CPR model.
Generator_period(gen, model, periods, interest_only_periods, i, balance) ==
    LET cfg == gen.config
        dt == Rat(FREQ_TO_MONTHS(cfg.payment_frequency), 12)
        rate_per_period == RMul(cfg.fixed_rate, dt)
        const_principal ==
            IF cfg.repayment_type = "constant_repayment"
            THEN RDiv(cfg.notional, RInt(IF periods - interest_only_periods > 1
                                         THEN periods - interest_only_periods ELSE 1))
            ELSE RZero
        t0 == RMul(RInt(i - 1), dt)
        t1 == RMul(RInt(i), dt)
        interest_cf == RMul(balance, rate_per_period)
        due == Generator_scheduled_principal(cfg.repayment_type, i, periods,
                   interest_only_periods,
                   annuity_payment(cfg.notional, rate_per_period, periods, interest_only_periods),
                   interest_cf, const_principal, balance)
        scheduled == RMin(balance, due.val)
        post_sched == RSub(balance, scheduled)
        prepaying == gen.prepayment_model # NoneObj /\ RLt(RZero, post_sched)
        remaining == RMax(Rat(1, 1000000), RSub(cfg.maturity_years, t0))
        refinance == forward_rate(model, t0, RMin(cfg.maturity_years, RAdd(t0, remaining)))
        month == (((cfg.start_month - 1) + i - 1) % 12) + 1
        cpr == annual_cpr(gen.prepayment_model, cfg.fixed_rate, refinance.val, t0,
                          cfg.maturity_years, month)
        smm == RSub(ROne, PowDt(RSub(ROne, RMax(RZero, cpr.val)), RMax(Dust, dt)))
        prepay == IF prepaying THEN RMin(post_sched, RMul(post_sched, smm)) ELSE RZero
    IN  IF due.err # "none" THEN [err |-> due.err]
        ELSE IF prepaying /\ refinance.err # "none" THEN [err |-> refinance.err]
        ELSE IF prepaying /\ cpr.err # "none" THEN [err |-> cpr.err]
        ELSE [err |-> "none", period_index |-> i, t0 |-> t0, t1 |-> t1,
              begin_balance |-> balance, interest_cashflow |-> interest_cf,
              scheduled_principal |-> scheduled, prepayment |-> prepay,
              total_cashflow |-> RAdd(RAdd(interest_cf, scheduled), prepay),
              end_balance |-> RSub(post_sched, prepay),
              annual_cpr |-> IF prepaying THEN cpr.val ELSE RZero,
              smm |-> IF prepaying THEN smm ELSE RZero,
              month |-> IF prepaying THEN month ELSE 0]

\* The periods 1..i of the loop: it stops at the first exception and breaks
\* when the balance is at most 1e-8.
RECURSIVE Generator_periods(_, _, _, _, _)
Generator_periods(gen, model, periods, interest_only_periods, i) ==
    IF i = 0 THEN NoSchedule("none")
    ELSE LET before == Generator_periods(gen, model, periods, interest_only_periods, i - 1)
             balance == IF i = 1 THEN gen.config.notional
                        ELSE before.rows[Len(before.rows)].end_balance
         IN  IF before.err # "none" \/ Len(before.rows) < i - 1 \/ AtMostDust(balance)
             THEN before
             ELSE LET row == Generator_period(gen, model, periods, interest_only_periods, i, balance)
                  IN  IF row.err # "none" THEN [err |-> row.err, rows |-> before.rows]
                      ELSE [err |-> "none", rows |-> Append(before.rows, row)]

\* The row appended after the loop "if balance > 1e-8".
ResidualRow(periods, dt, balance) ==
    [err |-> "none", period_index |-> periods + 1, t0 |-> RMul(RInt(periods), dt),
     t1 |-> RMul(RInt(periods), dt), begin_balance |-> balance,
     interest_cashflow |-> RZero, scheduled_principal |-> RZero, prepayment |-> RZero,
     total_cashflow |-> balance, end_balance |-> RZero, annual_cpr |-> RZero,
     smm |-> RZero, month |-> 0]

\* MortgageCashflowGenerator.generate_schedule
MortgageCashflowGenerator_generate_schedule(gen, model) ==
    IF MortgageConfig_validate(gen.config) # "none"
    THEN NoSchedule(MortgageConfig_validate(gen.config))
    ELSE LET cfg == gen.config
             months_per_period == FREQ_TO_MONTHS(cfg.payment_frequency)
             periods == MonthsToPeriods(cfg.maturity_years, months_per_period)
             dt == Rat(months_per_period, 12)
             interest_only_periods == MonthsToPeriods(cfg.interest_only_years, months_per_period)
             done == Generator_periods(gen, model, periods, interest_only_periods,
                                       IF periods > 0 THEN periods ELSE 0)
             balance == IF done.rows = <<>> THEN cfg.notional
                        ELSE done.rows[Len(done.rows)].end_balance
         IN  IF done.err # "none" THEN NoSchedule(done.err)
             ELSE [err |-> "none",
                   rows |-> IF ~AtMostDust(balance)
                            THEN Append(done.rows, ResidualRow(periods, dt, balance))
                            ELSE done.rows]

\* MortgageCashflowGenerator.generate
MortgageCashflowGenerator_generate(gen, model) ==
    LET schedule == MortgageCashflowGenerator_generate_schedule(gen, model)
    IN  IF schedule.err # "none" THEN NoFlows(schedule.err)
        ELSE Flows([k \in 1..Len(schedule.rows) |->
                       Cashflow(schedule.rows[k].t1, schedule.rows[k].total_cashflow)])

\* IntegratedGermanFixedRateMortgageLoan._generator
IntegratedGerman_generator(loan) ==
    [config |-> [notional |-> loan.notional, fixed_rate |-> loan.fixed_rate,
                 maturity_years |-> loan.maturity_years,
                 repayment_type |-> loan.repayment_type,
                 payment_frequency |-> loan.payment_frequency,
                 interest_only_years |-> loan.interest_only_years,
                 day_count |-> loan.day_count, start_month |-> loan.start_month],
     prepayment_model |-> loan.prepayment_model]

\* The generator behind an integrated product of either class.
Integrated_generator(product) ==
    IF product.cls = "IntegratedMortgageLoan" THEN product.cashflow_generator
    ELSE IntegratedGerman_generator(product)

\* get_cashflows of IntegratedMortgageLoan and IntegratedGermanFixedRateMortgageLoan
Integrated_get_cashflows(product, scenario) ==
    IF ~IsRateModel(scenario.model) THEN NoFlows("TypeError")
    ELSE MortgageCashflowGenerator_generate(Integrated_generator(product), scenario.model)

\* present_value of IntegratedMortgageLoan and IntegratedGermanFixedRateMortgageLoan
Integrated_present_value(product, scenario) ==
    IF ~IsRateModel(scenario.model) THEN Raise("TypeError")
    ELSE DiscountedSum(scenario.model,
             MortgageCashflowGenerator_generate(Integrated_generator(product), scenario.model))

\* detailed_schedule of the integrated products
Integrated_detailed_schedule(product, scenario) ==
    IF ~IsRateModel(scenario.model) THEN NoSchedule("TypeError")
    ELSE MortgageCashflowGenerator_generate_schedule(Integrated_generator(product), scenario.model)

-----------------------------------------------------------------------------
(* Mortgage schedules: the loans, prepayment models and curves they are    *)
(* computed for.                                                           *)

\* The most payment periods of a loan.
MaxPeriods == 3

\* A BehaviouralPrepaymentModel whose seasonality factors are 1 except in
\* December.
Behavioural(base_cpr, incentive_weight, age_weight, seasonality_weight, incentive_slope, december, max_cpr) ==
    [cls |-> "BehaviouralPrepaymentModel", base_cpr |-> base_cpr,
     incentive_weight |-> incentive_weight, age_weight |-> age_weight,
     seasonality_weight |-> seasonality_weight, incentive_slope |-> incentive_slope,
     age_slope |-> ROne,
     seasonality_factors |-> [m \in 1..12 |-> IF m = 12 THEN december ELSE ROne],
     min_cpr |-> RZero, max_cpr |-> max_cpr]

\* A CPR of december - 1 in December and none in the other months.
Seasonal(december) == Behavioural(RZero, RZero, RZero, ROne, RZero, december, ROne)

\* The behavioural models of a payment frequency, chosen so that
\* (1 - CPR) ** dt is a rational number: seasonal ones for every frequency,
\* and for annual payments also an incentive-driven one, an age-driven one
\* and one whose CPR of 2 exceeds the balance.
BehaviouralModels(frequency) ==
    CASE frequency = "monthly" -> {Seasonal(RInt(2))}
      [] frequency = "quarterly" -> {Seasonal(RInt(2)), Seasonal(Rat(31, 16))}
      [] OTHER -> {Seasonal(Rat(3, 2)),
                   Behavioural(RZero, Half, RZero, RZero, RInt(2), ROne, ROne),
                   Behavioural(RZero, RZero, ROne, RZero, RZero, ROne, ROne),
                   Behavioural(RInt(2), RZero, RZero, RZero, RZero, ROne, RInt(2))}

ConstantCPRPrepayment(cpr) == [cls |-> "ConstantCPRPrepayment", cpr |-> cpr]

\* CleanRoomBehaviouralPrepayment with the parameters of a
\* BehaviouralPrepaymentModel.
CleanRoom(m) == [m EXCEPT !.cls = "CleanRoomBehaviouralPrepayment"]

\* The constant CPRs of a payment frequency.
ConstantModels(frequency) ==
    CASE frequency = "monthly" -> {ConstantCPRPrepayment(c) : c \in {RZero, ROne}}
      [] frequency = "quarterly" ->
            {ConstantCPRPrepayment(c) : c \in {RInt(-1), RZero, Rat(15, 16)}}
      [] OTHER -> {ConstantCPRPrepayment(c) : c \in {RZero, Half, RInt(2)}}

\* A GermanFixedRateMortgageLoan of so many periods, so many of them
\* interest-only, at a given rate per period.
GermanLoan(repayment_type, frequency, periods, io_periods, rate_per_period, prepayment_model, start_month) ==
    [cls |-> "GermanFixedRateMortgageLoan", notional |-> ROne,
     fixed_rate |-> RDiv(RMul(rate_per_period, RInt(12)), RInt(FREQ_TO_MONTHS(frequency))),
     maturity_years |-> Rat(periods * FREQ_TO_MONTHS(frequency), 12),
     repayment_type |-> repayment_type, payment_frequency |-> frequency,
     interest_only_years |-> Rat(io_periods * FREQ_TO_MONTHS(frequency), 12),
     day_count |-> "30/360", prepayment_model |-> prepayment_model,
     start_month |-> start_month]

RepaymentTypes == {"annuity", "constant_repayment", "interest_only_then_amortizing"}
Frequencies == {"monthly", "quarterly", "annual"}
StartMonths == {11, 12}

GermanLoansOf(frequency) ==
    {GermanLoan(rt, frequency, n, io, r, m, sm) :
        rt \in RepaymentTypes, n \in 1..MaxPeriods, io \in 0..MaxPeriods,
        r \in {RZero, Half}, m \in {NoneObj} \cup BehaviouralModels(frequency),
        sm \in StartMonths}

\* Loans no schedule exists for.
InvalidLoans ==
    {[GermanLoan("annuity", "annual", 2, 0, Half, NoneObj, 1) EXCEPT !.notional = RZero],
     [GermanLoan("annuity", "annual", 2, 0, Half, NoneObj, 1) EXCEPT !.payment_frequency = "weekly"],
     [GermanLoan("annuity", "annual", 2, 0, Half, NoneObj, 1) EXCEPT !.start_month = 13],
     [GermanLoan("annuity", "annual", 2, 0, Half, NoneObj, 1) EXCEPT !.day_count = "act/act"],
     [GermanLoan("annuity", "annual", 2, 0, Half, NoneObj, 1) EXCEPT !.day_count = "act/365"],
     [GermanLoan("annuity", "annual", 2, 0, Half, NoneObj, 1) EXCEPT !.repayment_type = "bullet"]}

\* The curves a loan of a payment frequency is valued on: every discount
\* exponent is a whole number.
MortgageCurves(frequency) ==
    CASE frequency = "monthly" -> {FlatCurve(0)}
      [] frequency = "quarterly" -> {FlatCurve(0), FlatCurve(4)}
      [] OTHER -> {FlatCurve(0), FlatCurve(1)}

MortgageScenariosOf(frequency) ==
    {ScenarioDict(m, NoneObj, NoneObj, NoneObj) : m \in MortgageCurves(frequency)}

\* (loan, scenario) pairs.
GermanCases ==
    UNION {GermanLoansOf(f) \X MortgageScenariosOf(f) : f \in Frequencies}
    \cup (InvalidLoans \X MortgageScenariosOf("annual"))
    \cup {<<GermanLoan("annuity", "annual", 2, 0, Half, NoneObj, 1),
            ScenarioDict(NoneObj, NoneObj, NoneObj, NoneObj)>>}

\* The generator with a loan's parameters and a prepayment model.
GeneratorOf(loan, prepayment_model) ==
    [IntegratedGerman_generator(loan) EXCEPT !.prepayment_model = prepayment_model]

\* The model of the integrated products equivalent to a German loan's: none
\* or a constant CPR of 0 for none, the clean-room model with the same
\* parameters for a behavioural one.
EquivalentModels(loan) ==
    IF loan.prepayment_model = NoneObj THEN {NoneObj, ConstantCPRPrepayment(RZero)}
    ELSE {CleanRoom(loan.prepayment_model)}

IntegratedMortgageLoan(loan, prepayment_model) ==
    [cls |-> "IntegratedMortgageLoan",
     cashflow_generator |-> GeneratorOf(loan, prepayment_model)]

IntegratedGermanFixedRateMortgageLoan(loan, prepayment_model) ==
    [loan EXCEPT !.cls = "IntegratedGermanFixedRateMortgageLoan",
                 !.prepayment_model = prepayment_model]

\* (loan, equivalent model, scenario) triples.
ParityCases ==
    UNION {{<<c[1], m, c[2]>> : m \in EquivalentModels(c[1])} : c \in GermanCases}

\* (generator, scenario) pairs: the generators of the loans above, with the
\* clean-room models and with constant CPRs.
GeneratorCases ==
    UNION {{<<GeneratorOf(GermanLoan(rt, f, n, io, r, NoneObj, sm), m), scn>> :
               rt \in RepaymentTypes, n \in 1..MaxPeriods, io \in 0..MaxPeriods,
               r \in {RZero, Half}, sm \in StartMonths,
               m \in {CleanRoom(b) : b \in BehaviouralModels(f)} \cup ConstantModels(f),
               scn \in MortgageScenariosOf(f)} : f \in Frequencies}
    \cup {<<GeneratorOf(l, NoneObj), scn>> :
             l \in InvalidLoans, scn \in MortgageScenariosOf("annual")}

\* The corporate bonds whose principal is followed: zero coupon, annual
\* payments, with prepayment rates up to 3/2 of the balance.
PrincipalBonds ==
    {[cls |-> "CorporateBond", notional |-> ROne, maturity_years |-> RInt(m),
      coupon_type |-> "fixed", fixed_rate |-> fr, spread |-> RZero, frequency |-> "annual",
      day_count |-> "30/360", amortization_mode |-> am,
      custom_amortization |-> [i \in 1..m |-> c],
      interest_only_periods |-> io, annual_cpr |-> pp[1],
      periodic_prepayment_rate |-> pp[2]] :
        m \in 1..MaxPeriods, fr \in {RZero, Half}, am \in {"bullet", "linear", "custom"},
        c \in {Rat(1, 4), ROne}, io \in 0..(MaxPeriods - 1),
        pp \in {<<RZero, NoneR>>, <<Half, NoneR>>, <<RInt(2), NoneR>>,
                <<RZero, Half>>, <<RZero, ROne>>, <<RZero, Rat(3, 2)>>}}

-----------------------------------------------------------------------------
(* Mortgage schedules: the calls.                                          *)

\* GermanFixedRateMortgageLoan.get_cashflows(scenario), with the periods
\* behind the cashflows.
GermanSchedule(loan, scenario, out) ==
    /\ mortCall.op = "none"
    /\ mortCall' = [op |-> "german", loan |-> loan, scenario |-> scenario,
                    err |-> out.err, rows |-> out.rows, cfs |-> out.cfs]
    /\ UNCHANGED <<trade, tradeScn, tradePV, mirrorPV, products, result, scenariosIn,
                   contributions, grouped, risk, curveIn, curve, dfProbe, quotes, boot,
                   bootReversed, bondCall, sensCall, csaCall, genCall, solver, hwCall,
                   swapCall>>

\* MortgageCashflowGenerator.generate_schedule(model) and generate(model).
GeneratorSchedule(gen, scenario, schedule, flows) ==
    /\ mortCall.op = "none"
    /\ mortCall' = [op |-> "generator", loan |-> gen.config, scenario |-> scenario,
                    prepayment_model |-> gen.prepayment_model,
                    err |-> schedule.err, rows |-> schedule.rows, cfs |-> flows.cfs]
    /\ UNCHANGED <<trade, tradeScn, tradePV, mirrorPV, products, result, scenariosIn,
                   contributions, grouped, risk, curveIn, curve, dfProbe, quotes, boot,
                   bootReversed, bondCall, sensCall, csaCall, genCall, solver, hwCall,
                   swapCall>>

\* get_cashflows and present_value of the three mortgage products, for the
\* same loan parameters and scenario.
MortgageParity(loan, prepayment_model, scenario, german, germanPV, integrated, integratedPV, wrapper, wrapperPV) ==
    /\ mortCall.op = "none"
    /\ mortCall' = [op |-> "parity", loan |-> loan, scenario |-> scenario,
                    prepayment_model |-> prepayment_model,
                    german |-> [err |-> german.err, cfs |-> german.cfs],
                    germanPV |-> germanPV,
                    integrated |-> integrated, integratedPV |-> integratedPV,
                    wrapper |-> wrapper, wrapperPV |-> wrapperPV]
    /\ UNCHANGED <<trade, tradeScn, tradePV, mirrorPV, products, result, scenariosIn,
                   contributions, grouped, risk, curveIn, curve, dfProbe, quotes, boot,
                   bootReversed, bondCall, sensCall, csaCall, genCall, solver, hwCall,
                   swapCall>>

\* CorporateBond.get_cashflows(scenario), with the periods behind the
\* cashflows.
CorporateSchedule(bond, scenario, out) ==
    /\ mortCall.op = "none"
    /\ mortCall' = [op |-> "corporate", loan |-> bond, scenario |-> scenario,
                    err |-> out.err, rows |-> out.rows, cfs |-> out.cfs]
    /\ UNCHANGED <<trade, tradeScn, tradePV, mirrorPV, products, result, scenariosIn,
                   contributions, grouped, risk, curveIn, curve, dfProbe, quotes, boot,
                   bootReversed, bondCall, sensCall, csaCall, genCall, solver, hwCall,
                   swapCall>>

NextMortgage ==
    \/ \E c \in GermanCases :
          GermanSchedule(c[1], c[2], GermanFixedRateMortgageLoan_get_cashflows(c[1], c[2]))
    \/ \E c \in GeneratorCases :
          GeneratorSchedule(c[1], c[2],
              Integrated_detailed_schedule([cls |-> "IntegratedMortgageLoan", cashflow_generator |-> c[1]], c[2]),
              Integrated_get_cashflows([cls |-> "IntegratedMortgageLoan", cashflow_generator |-> c[1]], c[2]))
    \/ \E c \in ParityCases :
          MortgageParity(c[1], c[2], c[3],
              GermanFixedRateMortgageLoan_get_cashflows(c[1], c[3]),
              GermanFixedRateMortgageLoan_present_value(c[1], c[3]),
              Integrated_get_cashflows(IntegratedMortgageLoan(c[1], c[2]), c[3]),
              Integrated_present_value(IntegratedMortgageLoan(c[1], c[2]), c[3]),
              Integrated_get_cashflows(IntegratedGermanFixedRateMortgageLoan(c[1], c[2]), c[3]),
              Integrated_present_value(IntegratedGermanFixedRateMortgageLoan(c[1], c[2]), c[3]))
    \/ \E b \in PrincipalBonds :
          CorporateSchedule(b, ScenarioDict(FlatCurve(0), NoneObj, NoneObj, NoneObj),
              CorporateBond_get_cashflows(b, ScenarioDict(FlatCurve(0), NoneObj, NoneObj, NoneObj)))

-----------------------------------------------------------------------------
(* The Hull-White model's path simulation (models/hullwhite.py) and the    *)
(* Monte Carlo scenario generator built on it (engine/scenario.py).        *)

\* seed=None
NoSeed == -1

HullWhiteModel(a, sigma, initial_curve) ==
    [kind |-> "hull_white", a |-> a, sigma |-> sigma, initial_curve |-> initial_curve]

\* HullWhiteModel.short_rate
HullWhiteModel_short_rate(m, t) == short_rate(m.initial_curve, t)

\* InterestRateModel.continuous_forward_rate:
\* (log(df(t)) - log(df(t + dt))) / dt; a curve's discount factors are
\* exp(...) > 0, so the check on their sign raises nothing.
continuous_forward_rate(c, t, dt) ==
    IF RLt(t, RZero) \/ RLe(dt, RZero) THEN Raise("ValueError")
    ELSE Ok(RDiv(RSub(discount_factor(c, RAdd(t, dt)).neglog, discount_factor(c, t).neglog), dt))

\* HullWhiteModel._theta
theta(m, t) ==
    LET dt == Rat(1, 10000)
        f_t == continuous_forward_rate(m.initial_curve, t, dt).val
        f_tp == continuous_forward_rate(m.initial_curve, RAdd(t, dt), dt).val
        dfd_t == RDiv(RSub(f_tp, f_t), dt)
    IN  RAdd(RAdd(dfd_t, RMul(m.a, f_t)),
             RMul(RDiv(RMul(m.sigma, m.sigma), RMul(RInt(2), m.a)),
                  RSub(ROne, ExpNeg(RMul(RMul(RInt(2), m.a), t)))))

\* A generator that draws from the entropy pool whatever seed it is given.
default_rng_Unseeded(seed, entropy) == [key |-> entropy, pos |-> 0]

\* np.random.default_rng(seed): a new generator at the start of the stream
\* of its seed; without a seed, of entropy taken from the operating system.
default_rng(seed, entropy) == [key |-> IF seed = NoSeed THEN entropy ELSE seed, pos |-> 0]

\* The draw at a position of a key's stream: a fixed function of the two,
\* here onto -2..2.
Normal(key, pos) == RInt(((key * key + (key + 2) * pos + pos * pos) % 5) - 2)

\* rng.standard_normal(n): the next n draws, and the generator moved past
\* them.
standard_normal(rng, n) ==
    [z |-> [k \in 1..n |-> Normal(rng.key, rng.pos + k)],
     rng |-> [rng EXCEPT !.pos = @ + n]]

\* "for i in range(n_steps)" of simulate_short_rate_paths, after i passes:
\* the rates of every path up to column i, and the generator.
RECURSIVE simulate_loop(_, _, _, _, _)
simulate_loop(m, dt, n_paths, rng, i) ==
    IF i = 0
    THEN [rates |-> [p \in 1..n_paths |-> <<HullWhiteModel_short_rate(m, RZero).val>>],
          rng |-> rng]
    ELSE LET before == simulate_loop(m, dt, n_paths, rng, i - 1)
             t == RMul(RInt(i - 1), dt)
             draw == standard_normal(before.rng, n_paths)
             dr(p) == RAdd(RMul(RSub(theta(m, t), RMul(m.a, before.rates[p][i])), dt),
                           RMul(RMul(m.sigma, Sqrt(dt)), draw.z[p]))
         IN  [rates |-> [p \in 1..n_paths |->
                            Append(before.rates[p], RAdd(before.rates[p][i], dr(p)))],
              rng |-> draw.rng]

\* HullWhiteModel.simulate_short_rate_paths; entropy is what the operating
\* system would seed an unseeded generator with.
simulate_short_rate_paths(m, horizon_years, n_steps, n_paths, seed, entropy) ==
    IF RLe(horizon_years, RZero) \/ n_steps <= 0 \/ n_paths <= 0
    THEN [err |-> "ValueError", rates |-> <<>>]
    ELSE [err |-> "none",
          rates |-> simulate_loop(m, RDiv(horizon_years, RInt(n_steps)), n_paths,
                                  default_rng(seed, entropy), n_steps).rates]

\* The second-to-last rate of a path.
terminal_rate_Penultimate(path) == path[Len(path) - 1]

\* paths[:, -1], for one path
terminal_rate(path) == path[Len(path)]

\* f"{idx:04d}"
Format04d(idx) ==
    (CASE idx < 10 -> "000" [] idx < 100 -> "00" [] idx < 1000 -> "0" [] OTHER -> "")
    \o ToString(idx)

\* HullWhiteMonteCarloScenarioGenerator.generate
HullWhiteMonteCarloScenarioGenerator_generate(g, entropy) ==
    LET paths == simulate_short_rate_paths(g.model, g.horizon_years, g.n_steps, g.n_paths,
                                           g.seed, entropy)
        r0 == HullWhiteModel_short_rate(g.model, RZero).val
        shift(idx) == RSub(terminal_rate(paths.rates[idx + 1]), r0)
        shifted_curve(idx) ==
            NewCurve("zero_curve", Arr(1, g.base_curve.tenors),
                     Arr(1, np_add_scalar(g.base_curve.values, shift(idx)))).obj
    IN  IF paths.err # "none" THEN [err |-> paths.err, scenarios |-> <<>>]
        ELSE [err |-> "none",
              scenarios |-> [k \in 1..Len(paths.rates) |->
                                Scenario("hw_mc_path_" \o Format04d(k - 1),
                                         shifted_curve(k - 1), NoData)]]

\* The most steps and paths of a simulation, and the most simulations run
\* one after another.
MaxSteps == 2
MaxPaths == 2
MaxSimulations == 3

\* Models whose drift is a rational number at every step: (a, length of a
\* step) is (1/2, 1), (1, 1) or (2, 1/4).
HullWhiteModels ==
    {HullWhiteModel(a, sigma, c) :
        a \in {Half, ROne}, sigma \in {RZero, ROne}, c \in {FlatCurve(0), FlatCurve(1)}}

\* (model, horizon_years, n_steps, n_paths, seed): whole-year steps, with
\* seeds 3 and 4 and without a seed, and calls that are refused.
SimulationArgs ==
    {<<m, RInt(n_steps), n_steps, n_paths, seed>> :
        m \in {HullWhiteModel(Half, ROne, FlatCurve(1)), HullWhiteModel(ROne, ROne, FlatCurve(0))},
        n_steps \in 1..MaxSteps, n_paths \in {MaxPaths}, seed \in {3, 4, NoSeed}}
    \cup {<<HullWhiteModel(RInt(2), ROne, FlatCurve(1)), Half, 2, 1, 3>>,
          <<HullWhiteModel(ROne, ROne, FlatCurve(0)), ROne, 1, 0, 3>>,
          <<HullWhiteModel(ROne, ROne, FlatCurve(0)), RZero, 1, 1, 3>>}

\* What the operating system may seed an unseeded generator with.
Entropy == {5, 6}

\* HullWhiteMonteCarloScenarioGenerator(base_curve, model, horizon_years,
\* n_steps, n_paths, seed)
Generators ==
    {[base_curve |-> base, model |-> m, horizon_years |-> RInt(n_steps), n_steps |-> n_steps,
      n_paths |-> n_paths, seed |-> seed] :
        base \in {FlatCurve(1), SteepCurve}, m \in HullWhiteModels,
        n_steps \in 1..MaxSteps, n_paths \in 0..MaxPaths, seed \in {3, 4, NoSeed}}

\* model.simulate_short_rate_paths(...), one call after another; every call
\* is kept with what it returned.
Simulate(m, horizon_years, n_steps, n_paths, seed, entropy, out) ==
    /\ hwCall.op \in {"none", "simulate"}
    /\ hwCall.op = "simulate" => Len(hwCall.calls) < MaxSimulations
    /\ hwCall' = [op |-> "simulate",
                  calls |-> (IF hwCall.op = "none" THEN <<>> ELSE hwCall.calls)
                            \o <<[model |-> m, horizon_years |-> horizon_years,
                                  n_steps |-> n_steps, n_paths |-> n_paths, seed |-> seed,
                                  err |-> out.err, rates |-> out.rates]>>]
    /\ UNCHANGED <<trade, tradeScn, tradePV, mirrorPV, products, result, scenariosIn,
                   contributions, grouped, risk, curveIn, curve, dfProbe, quotes, boot,
                   bootReversed, bondCall, sensCall, csaCall, genCall, solver, mortCall,
                   swapCall>>

\* HullWhiteMonteCarloScenarioGenerator.generate(), with the paths the
\* generator's model simulates for the same seed.
GenerateMonteCarlo(g, entropy, paths, out) ==
    /\ hwCall.op = "none"
    /\ hwCall' = [op |-> "generate", generator |-> g, paths |-> paths,
                  err |-> out.err, scenarios |-> out.scenarios]
    /\ UNCHANGED <<trade, tradeScn, tradePV, mirrorPV, products, result, scenariosIn,
                   contributions, grouped, risk, curveIn, curve, dfProbe, quotes, boot,
                   bootReversed, bondCall, sensCall, csaCall, genCall, solver, mortCall,
                   swapCall>>

NextHullWhite ==
    \/ \E c \in SimulationArgs, entropy \in Entropy :
          Simulate(c[1], c[2], c[3], c[4], c[5], entropy,
                   simulate_short_rate_paths(c[1], c[2], c[3], c[4], c[5], entropy))
    \/ \E g \in Generators, entropy \in Entropy :
          GenerateMonteCarlo(g, entropy,
              simulate_short_rate_paths(g.model, g.horizon_years, g.n_steps, g.n_paths,
                                        g.seed, entropy),
              HullWhiteMonteCarloScenarioGenerator_generate(g, entropy))

-----------------------------------------------------------------------------
(* Properties of the valuation engine (under SpecEngine).                  *)

\* The key '{index:03d}_{ClassName}' of position index < 1000, written out.
KeyOfPosition(index, cls) ==
    <<DigitChars[(index \div 100) + 1], DigitChars[((index \div 10) % 10) + 1],
      DigitChars[(index % 10) + 1], "_", cls>>

\* The contributions of the positions of class cls, in portfolio order.
ClassContributions(per_product, cls) ==
    [i \in 1..Len(products) |->
        IF products[i].cls = cls THEN Get(per_product, KeyOfPosition(i - 1, cls))
        ELSE RZero]

\* C1, flat breakdown: after value_with_contributions, every input scenario
\* has one contribution per product position, keyed '{index:03d}_{ClassName}',
\* the keys of a scenario are pairwise different, and its contributions sum to
\* scenario_pv[scenario].
C1_Flat ==
    contributions.err = "none" =>
        \A j \in 1..Len(scenariosIn) :
            /\ Has(contributions.val, scenariosIn[j].name)
            /\ LET per_product == Get(contributions.val, scenariosIn[j].name)
               IN  /\ Len(per_product.keys) = Len(products)
                   /\ \A i \in 1..Len(products) :
                          per_product.keys[i] = KeyOfPosition(i - 1, products[i].cls)
                   /\ Cardinality({per_product.keys[i] : i \in 1..Len(products)})
                          = Len(products)
                   /\ RSum(per_product.vals) = Get(result.scenario_pv, scenariosIn[j].name)

\* C1, grouped breakdown: after value_with_grouped_contributions, every input
\* scenario has one group per class name in the portfolio, each group is the sum
\* of the contributions of the positions of that class, and the groups of a
\* scenario sum to scenario_pv[scenario].
C1_Grouped ==
    grouped.err = "none" =>
        LET flat == ValuationEngine_value_with_contributions(products, scenariosIn).contributions
        IN  \A j \in 1..Len(scenariosIn) :
                /\ Has(grouped.val, scenariosIn[j].name)
                /\ LET groups == Get(grouped.val, scenariosIn[j].name)
                       per_product == Get(flat, scenariosIn[j].name)
                   IN  /\ {groups.keys[k] : k \in 1..Len(groups.keys)}
                              = {<<products[i].cls>> : i \in 1..Len(products)}
                       /\ \A i \in 1..Len(products) :
                              Get(groups, <<products[i].cls>>)
                                  = RSum(ClassContributions(per_product, products[i].cls))
                       /\ RSum(groups.vals) = Get(result.scenario_pv, scenariosIn[j].name)

\* C1: contribution keys are per position and both breakdowns sum to the
\* scenario total.
C1_ContributionsSumToTotal == C1_Flat /\ C1_Grouped

\* C1 happens: a grouped breakdown of a portfolio holding two positions of one
\* class and one of another, over scenarios of two names.
C1_Witness ==
    /\ grouped.err = "none"
    /\ \E i, k \in 1..Len(products) : i # k /\ products[i].cls = products[k].cls
    /\ \E i, k \in 1..Len(products) : products[i].cls # products[k].cls
    /\ Len(grouped.val.keys) = 2
    /\ \E j \in 1..Len(scenariosIn) :
           RSum(Get(grouped.val, scenariosIn[j].name).vals) # RZero

\* The total of input scenario j: the sum over all products of present_value
\* under that scenario.
ScenarioTotal(j) == portfolio_total(products, scenario_data(scenariosIn[j])).val

\* C2 as stated: the array has one entry per input scenario, in input order,
\* entry j being the total of scenario j, and every input scenario's name maps,
\* in scenario_pv, to that same scenario's total.
C2_MapAndArrayAgree ==
    (result.err = "none" /\ contributions.err = "unset" /\ grouped.err = "unset") =>
        /\ Len(result.portfolio_pv_distribution) = Len(scenariosIn)
        /\ \A j \in 1..Len(scenariosIn) :
               /\ result.portfolio_pv_distribution[j] = ScenarioTotal(j)
               /\ Has(result.scenario_pv, scenariosIn[j].name)
               /\ Get(result.scenario_pv, scenariosIn[j].name) = ScenarioTotal(j)

\* The part of C2 that the array alone carries: one entry per input scenario,
\* in input order, each the total of its scenario.
C2_ArrayInOrder ==
    result.err = "none" =>
        /\ Len(result.portfolio_pv_distribution) = Len(scenariosIn)
        /\ \A j \in 1..Len(scenariosIn) :
               result.portfolio_pv_distribution[j] = ScenarioTotal(j)

InUnitInterval(c) == RLt(RZero, c) /\ RLt(c, ROne)

\* C3: for a non-empty distribution and 0 < c < 1, expected_shortfall(c) is at
\* least pvat_risk(c) of the same result, with or without a base scenario.
C3_ShortfallAtLeastVaR ==
    /\ (risk.op = "expected_shortfall" /\ risk.out.err = "none") =>
           /\ pvat_risk(result, risk.confidence).err = "none"
           /\ RLe(pvat_risk(result, risk.confidence).val, risk.out.val)
    /\ (risk.op = "pvat_risk" /\ risk.out.err = "none") =>
           /\ expected_shortfall(result, risk.confidence).err = "none"
           /\ RLe(risk.out.val, expected_shortfall(result, risk.confidence).val)

\* C3 happens: expected_shortfall on three different PVs with a base scenario
\* that is not the best one, strictly above pvat_risk.
C3_Witness ==
    /\ risk.op = "expected_shortfall"
    /\ risk.out.err = "none"
    /\ Len(result.portfolio_pv_distribution) = 3
    /\ Cardinality({result.portfolio_pv_distribution[j] : j \in 1..3}) = 3
    /\ Has(result.scenario_pv, BaseName)
    /\ RLt(Get(result.scenario_pv, BaseName), np_max(result.portfolio_pv_distribution))
    /\ RLt(pvat_risk(result, risk.confidence).val, risk.out.val)

\* Some input scenario carries the base name.
HasBaseScenario == \E j \in 1..Len(scenariosIn) : scenariosIn[j].name = BaseName

\* C4: pvat_risk(c) raises for c outside (0, 1); otherwise it is base minus the
\* (1-c)-quantile of the distribution, base being the PV recorded under the
\* base name when a scenario carries it and the largest PV otherwise; without a
\* base scenario the value is never negative.
C4_PvatRisk ==
    risk.op = "pvat_risk" =>
        LET dist == result.portfolio_pv_distribution
            base == IF HasBaseScenario THEN Get(result.scenario_pv, BaseName)
                    ELSE np_max(dist)
        IN  /\ ~InUnitInterval(risk.confidence) => risk.out.err = "ValueError"
            /\ (InUnitInterval(risk.confidence) /\ Len(dist) > 0) =>
                   /\ risk.out = Ok(RSub(base, np_quantile(dist, RSub(ROne, risk.confidence))))
                   /\ ~HasBaseScenario => RLe(RZero, risk.out.val)

\* C4 happens: a positive pvat_risk of a result without base scenario.
C4_Witness ==
    /\ risk.op = "pvat_risk"
    /\ risk.out.err = "none"
    /\ ~HasBaseScenario
    /\ Len(result.portfolio_pv_distribution) >= 2
    /\ RLt(RZero, risk.out.val)

\* C4 happens, the error side: a confidence of 0 or 1 is refused.
C4_WitnessRefused ==
    risk.op = "pvat_risk" /\ ~InUnitInterval(risk.confidence) /\ risk.out.err = "ValueError"

-----------------------------------------------------------------------------
(* Properties of single-trade pricing (under SpecProducts).                *)

Priced == tradePV.err # "unset"

\* C5: the same trade with only its pay/receive side flipped, priced under
\* the same scenario, has exactly the negated PV (and prices iff the trade does).
C5_PayReceiveSymmetry ==
    (Priced /\ trade.cls \in TwoSided) =>
        /\ mirrorPV.err = tradePV.err
        /\ tradePV.err = "none" => mirrorPV.val = RNeg(tradePV.val)

\* C5 happens: a cross-currency swap with notional exchange and mark-to-market
\* resets, priced to a non-zero PV on both sides.
C5_Witness ==
    /\ Priced
    /\ trade.cls = "CrossCurrencySwap"
    /\ trade.exchange_notionals
    /\ trade.mark_to_market
    /\ tradePV.err = "none"
    /\ mirrorPV.err = "none"
    /\ tradePV.val # RZero

\* The scenario lacks a key the trade requires, or holds under it an object
\* without the required capability.
LacksRequiredKey(p, scenario) ==
    \/ ~IsRateModel(scenario.model)
    \/ p.cls \in {"FXForward", "CrossCurrencySwap"} /\ ~IsFXCurve(scenario.fx_curve)
    \/ p.cls = "CrossCurrencySwap" /\ ~IsRateModel(scenario.foreign_model)
    \/ p.cls = "FXSwap" /\ p.far_rate = NoneR /\ ~IsRateModel(scenario.foreign_model)
    \/ p.cls = "CreditDefaultSwap" /\ ~IsHazardCurve(scenario.hazard_curve)

\* C6 as stated: present_value raises TypeError whenever the scenario lacks a
\* required key.
C6_TypeErrorOnMissingKey ==
    (Priced /\ LacksRequiredKey(trade, tradeScn)) => tradePV.err = "TypeError"

\* What does hold of C6: a missing key never yields a PV, and yields a TypeError
\* for every trade except an FX swap without quoted far rate whose far date is
\* not after its near date.
C6_NoValueOnMissingKey ==
    (Priced /\ LacksRequiredKey(trade, tradeScn)) =>
        /\ tradePV.err # "none"
        /\ tradePV.err # "TypeError" =>
               /\ trade.cls = "FXSwap"
               /\ trade.far_rate = NoneR
               /\ RLe(trade.far_maturity_years, trade.near_maturity_years)
               /\ tradePV.err = "ValueError"

\* The notional and the maturity a trade is written on.
NotionalOf(p) ==
    CASE p.cls \in {"FXForward", "FXSwap"} -> p.notional_foreign
      [] p.cls = "CrossCurrencySwap" -> p.domestic_notional
      [] OTHER -> p.notional
MaturityOf(p) == IF p.cls = "FXSwap" THEN p.far_maturity_years ELSE p.maturity_years

\* C7 as stated: a trade with a notional or a maturity that is zero or negative
\* is never given a PV.
C7_NonPositiveTermsFail ==
    (Priced /\ (RLe(NotionalOf(trade), RZero) \/ RLe(MaturityOf(trade), RZero))) =>
        tradePV.err # "none"

-----------------------------------------------------------------------------
(* Properties of the curves (under SpecCurve).                             *)

\* C8 as stated: a curve object exists only for one-dimensional arrays of equal
\* length, at least two points, strictly increasing tenors, all tenors > 0; any
\* other input raises and leaves no object.
C8_ConstructionValidates ==
    /\ curve.err = "none" =>
           /\ curveIn.tenors.ndim = 1
           /\ curveIn.values.ndim = 1
           /\ Len(curveIn.tenors.data) = Len(curveIn.values.data)
           /\ Len(curveIn.tenors.data) >= 2
           /\ \A i \in 1..(Len(curveIn.tenors.data) - 1) :
                  RLt(curveIn.tenors.data[i], curveIn.tenors.data[i + 1])
           /\ \A i \in 1..Len(curveIn.tenors.data) : RLt(RZero, curveIn.tenors.data[i])
    /\ curve.err \notin {"none", "unset"} => curve.obj = NoneObj

\* What does hold of C8: everything but the positivity of the tenors.
C8_ShapeAndOrderValidated ==
    /\ curve.err = "none" <=>
           /\ curveIn.kind \in CurveKinds
           /\ curveIn.tenors.ndim = 1
           /\ curveIn.values.ndim = 1
           /\ Len(curveIn.tenors.data) = Len(curveIn.values.data)
           /\ Len(curveIn.tenors.data) >= 2
           /\ \A i \in 1..(Len(curveIn.tenors.data) - 1) :
                  RLt(curveIn.tenors.data[i], curveIn.tenors.data[i + 1])
    /\ curve.err \notin {"none", "unset"} => curve.err = "ValueError" /\ curve.obj = NoneObj

Probed == dfProbe.done /\ dfProbe.df1.err = "none" /\ dfProbe.df2.err = "none"

NodeRatesNonNegative ==
    \A i \in 1..Len(curve.obj.values) : RLe(RZero, curve.obj.values[i])
NodeRatesNonDecreasing ==
    \A i \in 1..(Len(curve.obj.values) - 1) : RLe(curve.obj.values[i], curve.obj.values[i + 1])

\* discount_factor(t2) <= discount_factor(t1), read off the exponents.
ProbeNonIncreasing == RLe(dfProbe.df1.neglog, dfProbe.df2.neglog)
ProbeOneAtZero == dfProbe.t1 = RZero => dfProbe.df1.val = ROne

\* C9 as stated: on a valid zero curve with node rates >= 0, discount_factor(0)
\* is 1 and discount_factor(t2) <= discount_factor(t1) for 0 <= t1 <= t2.
C9_NonIncreasingWhenRatesNonNegative ==
    (Probed /\ NodeRatesNonNegative) => (ProbeOneAtZero /\ ProbeNonIncreasing)

\* C9, amended: on a valid zero curve with node rates >= 0 that do not decrease
\* along the tenors, discount_factor(0) is 1 and discount_factor(t2) <=
\* discount_factor(t1) for 0 <= t1 <= t2; discount_factor(0) is 1 on every
\* valid zero curve.
C9_NonIncreasingWhenRatesRise ==
    /\ Probed => ProbeOneAtZero
    /\ (Probed /\ NodeRatesNonNegative /\ NodeRatesNonDecreasing) => ProbeNonIncreasing

\* C9 happens: on a curve with rising non-negative rates, a time strictly
\* between two nodes and a later time beyond the last node, with a strictly
\* smaller discount factor.
C9_Witness ==
    /\ Probed
    /\ NodeRatesNonNegative
    /\ NodeRatesNonDecreasing
    /\ RLt(curve.obj.values[1], curve.obj.values[Len(curve.obj.values)])
    /\ RLt(curve.obj.tenors[1], dfProbe.t1)
    /\ RLt(dfProbe.t1, curve.obj.tenors[2])
    /\ RLt(curve.obj.tenors[Len(curve.obj.tenors)], dfProbe.t2)
    /\ RLt(dfProbe.df1.neglog, dfProbe.df2.neglog)

-----------------------------------------------------------------------------
(* Properties of the bootstrap (under SpecBootstrap).                      *)

\* The payment grid of swap quote s: i / fixed_frequency for i = 1..GridSize(s).
GridSize(s) == PyRound(RMul(s.maturity_years, RInt(s.fixed_frequency)))
GridTime(s, i) == RMul(RInt(i), Rat(1, s.fixed_frequency))

\* The quotes hold a deposit of tenor t, or a swap of maturity t shorter than
\* the maturity of s: what can have produced a discount factor at t before s.
ProducedBefore(t, s) ==
    \/ \E k \in 1..Len(quotes.deposits) : quotes.deposits[k].tenor_years = t
    \/ \E k \in 1..Len(quotes.swaps) :
           /\ quotes.swaps[k].maturity_years = t
           /\ RLt(t, s.maturity_years)

\* Every discount factor a swap read was stored under exactly the time read
\* (nothing interpolated), by a deposit or by a swap of shorter maturity.
ReadsAreEarlierNodes ==
    \A k \in 1..Len(boot.reads) :
        LET r == boot.reads[k]
        IN  /\ ProducedBefore(r.time, r.swap)
            /\ \/ r.producer.by = "deposit"
               \/ RLt(r.producer.maturity_years, r.swap.maturity_years)

\* C10 as stated: a curve is returned only if every swap has, for each of its
\* fixed-payment times before its maturity, a discount factor produced by a
\* deposit or a shorter swap; nothing is interpolated and no swap reads a
\* discount factor of a longer swap.
C10_GridBeforeMaturity ==
    /\ boot.pc = "returned" =>
           \A k \in 1..Len(quotes.swaps) :
               \A i \in 1..GridSize(quotes.swaps[k]) :
                   RLt(GridTime(quotes.swaps[k], i), quotes.swaps[k].maturity_years)
                       => ProducedBefore(GridTime(quotes.swaps[k], i), quotes.swaps[k])
    /\ boot.pc # "idle" => ReadsAreEarlierNodes

\* C10, amended: a curve is returned only if every swap has, for each time of
\* its payment grid but the last (i / fixed_frequency, 1 <= i < n, n =
\* round(maturity * fixed_frequency)), a discount factor produced by a deposit
\* or a shorter swap; nothing is interpolated and no swap reads a discount
\* factor of a longer swap.
C10_GridButLast ==
    /\ boot.pc = "returned" =>
           \A k \in 1..Len(quotes.swaps) :
               \A i \in 1..(GridSize(quotes.swaps[k]) - 1) :
                   ProducedBefore(GridTime(quotes.swaps[k], i), quotes.swaps[k])
    /\ boot.pc # "idle" => ReadsAreEarlierNodes

\* C10 happens: a curve bootstrapped from swaps that read a deposit's and a
\* shorter swap's discount factor; and a bootstrap refused for a missing one.
C10_Witness ==
    /\ boot.pc = "returned"
    /\ \E k \in 1..Len(boot.reads) : boot.reads[k].producer.by = "swap"
    /\ \E k \in 1..Len(boot.reads) : boot.reads[k].producer.by = "deposit"

\* The discount factor of the returned curve's node at time t.
NodeDF(b, t) == b.discount_factors[CHOOSE i \in 1..Len(b.tenors) : b.tenors[i] = t]

\* The times quoted: deposit tenors and swap maturities.
QuotedTimes ==
    {quotes.deposits[k].tenor_years : k \in 1..Len(quotes.deposits)}
        \cup {quotes.swaps[k].maturity_years : k \in 1..Len(quotes.swaps)}

\* The returned curve has one node per quoted time, and at each the discount
\* factor its quote implies: 1/(1+r*T) for a deposit, the par-swap identity over
\* the curve's own nodes for a swap.
NodesAreTheQuotes ==
    /\ {boot.tenors[i] : i \in 1..Len(boot.tenors)} = QuotedTimes
    /\ Cardinality({boot.tenors[i] : i \in 1..Len(boot.tenors)}) = Len(boot.tenors)
    /\ \A k \in 1..Len(quotes.deposits) :
           LET d == quotes.deposits[k]
           IN  RMul(NodeDF(boot, d.tenor_years), RAdd(ROne, RMul(d.simple_rate, d.tenor_years)))
                   = ROne
    /\ \A k \in 1..Len(quotes.swaps) :
           LET s == quotes.swaps[k]
               dt == Rat(1, s.fixed_frequency)
               known_leg == RSum([i \in 1..(GridSize(s) - 1) |->
                                     RMul(dt, NodeDF(boot, GridTime(s, i)))])
           IN  RMul(NodeDF(boot, s.maturity_years), RAdd(ROne, RMul(s.par_rate, dt)))
                   = RSub(ROne, RMul(s.par_rate, known_leg))

\* The same quotes in the opposite order give the same outcome: the same
\* curve, or an exception of the same type.
SameWhenReversed ==
    /\ bootReversed.pc = boot.pc
    /\ bootReversed.err = boot.err
    /\ boot.pc = "returned" =>
           /\ bootReversed.tenors = boot.tenors
           /\ bootReversed.discount_factors = boot.discount_factors

\* C11 as stated: the outcome of bootstrap_zero_curve does not depend on the
\* order in which the quotes are listed, and a returned curve has exactly one
\* node per quoted tenor/maturity, carrying the discount factor implied by that
\* quote.
C11_OrderIndependent ==
    boot.pc # "idle" =>
        /\ SameWhenReversed
        /\ boot.pc = "returned" => NodesAreTheQuotes

\* No two quotes (deposits or swaps) are for the same time.
QuotedTimesDistinct == Cardinality(QuotedTimes) = Len(quotes.deposits) + Len(quotes.swaps)

\* What does hold of C11: all of it, for quotes of pairwise different times.
C11_OrderIndependentWhenDistinct ==
    (boot.pc # "idle" /\ QuotedTimesDistinct) =>
        /\ SameWhenReversed
        /\ boot.pc = "returned" => NodesAreTheQuotes

\* C11's case with distinct times: two deposits and two swaps listed in
\* descending order, bootstrapped to a four-node curve.
C11_DistinctReached ==
    /\ boot.pc = "returned"
    /\ QuotedTimesDistinct
    /\ Len(quotes.deposits) = 2
    /\ Len(quotes.swaps) = 2
    /\ RLt(quotes.deposits[2].tenor_years, quotes.deposits[1].tenor_years)
    /\ RLt(quotes.swaps[2].maturity_years, quotes.swaps[1].maturity_years)

-----------------------------------------------------------------------------
(* Properties of the callable bond (under SpecBonds).                      *)

\* |a - b| <= rel * |b|
WithinRel(a, b, rel) == RLe(RAbs(RSub(a, b)), RMul(rel, RAbs(b)))

\* A callable bond that cannot be called and whose lattice does not spread.
NonCallableCase ==
    /\ bondCall.op = "callable_pv"
    /\ bondCall.product.call_schedule = <<>>
    /\ bondCall.product.short_rate_volatility = RZero
    /\ bondCall.vanilla_pv.err = "none"

IsFlat(c) == \A i \in 1..Len(c.values) : c.values[i] = c.values[1]

\* C12: with an empty call schedule and zero short-rate volatility the
\* callable bond's present value equals, within 5e-3 relative tolerance, that
\* of the FixedRateBond with the same notional, coupon rate, maturity and
\* coupon frequency under the same zero curve, whatever the curve's shape.
C12_ReducesToVanilla ==
    NonCallableCase =>
        /\ bondCall.pv.err = "none"
        /\ WithinRel(bondCall.pv.val, bondCall.vanilla_pv.val, Rat(5, 1000))

\* The same on flat zero curves only.
C12_ReducesToVanillaOnFlatCurve ==
    (NonCallableCase /\ IsFlat(bondCall.scenario.model)) =>
        /\ bondCall.pv.err = "none"
        /\ bondCall.pv.val = bondCall.vanilla_pv.val

\* A two-period non-callable bond priced on a flat curve.
C12_FlatReached ==
    /\ NonCallableCase
    /\ IsFlat(bondCall.scenario.model)
    /\ bondCall.product.notional = ROne
    /\ PeriodCount(bondCall.product.maturity_years, bondCall.product.coupon_frequency) = 2

-----------------------------------------------------------------------------
(* Properties of the root solvers (under SpecBonds).  The solvers' tol     *)
(* argument defaults to 1e-10, the tolerance of the round trip; the calls  *)
(* made here pass a tol of 1/8 or 1/32 and the round trip is held to the   *)
(* tol of the call.                                                        *)

\* A solver returned a value through its convergence test.
SolverConverged ==
    /\ bondCall.op \in {"ytm", "oas"}
    /\ bondCall.solved.err = "none"
    /\ bondCall.solved.converged

\* C13: whenever yield_to_maturity or option_adjusted_spread returns a value
\* for a positive target price, repricing at that value gives the target
\* price back within the relative tolerance.  Stated for the returns made
\* through the convergence test, where max_iter plays no part.
C13_RoundTripRelative ==
    SolverConverged =>
        /\ bondCall.repriced.err = "none"
        /\ WithinRel(bondCall.repriced.val, bondCall.target, bondCall.tol)

\* What the convergence test gives: the repriced value is within tol of the
\* target in absolute terms.
C13_RoundTripAbsolute ==
    SolverConverged =>
        /\ bondCall.repriced.err = "none"
        /\ RLt(RAbs(RSub(bondCall.repriced.val, bondCall.target)), bondCall.tol)

\* Each solver converges on a target below 1 after at least one bisection step
\* away from the bracket's first midpoint.
C13_YieldReached ==
    /\ SolverConverged
    /\ bondCall.op = "ytm"
    /\ RLt(bondCall.target, ROne)
    /\ bondCall.solved.val # RMul(Half, RAdd(bondCall.lower, bondCall.upper))
C13_SpreadReached ==
    /\ SolverConverged
    /\ bondCall.op = "oas"
    /\ RLt(bondCall.target, ROne)
    /\ bondCall.solved.val # RZero

-----------------------------------------------------------------------------
(* Properties of the corporate bond (under SpecBonds).                     *)

\* A corporate bond was priced and its schedule built.
CorporatePriced ==
    /\ bondCall.op = "corporate_pv"
    /\ bondCall.flows.err = "none"
    /\ bondCall.pv.err = "none"

\* Over some coupon period of the bond the forward curve's simple forward rate
\* is not the discount curve's.
ForwardsDiffer ==
    \E i \in 1..Len(bondCall.flows.rows) :
        LET dt == FREQ_TO_YEARS(bondCall.product.frequency)
            t0 == RMul(RInt(i - 1), dt)
            t1 == RMul(RInt(i), dt)
        IN  ForwardCurve_forward_rate(bondCall.scenario.forward_model, t0, t1).val
                # forward_rate(bondCall.scenario.model, t0, t1).val

\* C14: a floating-coupon bond priced under a scenario that carries a
\* 'forward_model' takes each period's coupon rate from that curve's forward
\* rate plus the spread, and where that curve's forwards are not the discount
\* curve's its PV is not the PV obtained without the 'forward_model'.
C14_ForwardCurveProjectsCoupons ==
    (/\ CorporatePriced
     /\ bondCall.product.coupon_type = "floating"
     /\ bondCall.scenario.forward_model.kind = "forward_curve") =>
        /\ \A i \in 1..Len(bondCall.flows.rows) :
               LET row == bondCall.flows.rows[i]
                   dt == FREQ_TO_YEARS(bondCall.product.frequency)
               IN  row.rate = RAdd(ForwardCurve_forward_rate(bondCall.scenario.forward_model,
                                                             RSub(row.time, dt), row.time).val,
                                   bondCall.product.spread)
        /\ ForwardsDiffer => bondCall.pv.val # bondCall.primary_pv.val

\* The periodic prepayment rate of the priced bond.
SMM == prepayment_rate(bondCall.product, FREQ_TO_YEARS(bondCall.product.frequency))

\* The scheduled principal of a period, taken from its opening balance.
ScheduledFromOpening(i) ==
    LET row == bondCall.flows.rows[i]
    IN  IF i > bondCall.product.interest_only_periods THEN RMin(row.opening, row.due)
        ELSE RZero

\* C15: in every period the prepayment is SMM times the balance left after the
\* period's scheduled principal, and the period's interest and scheduled
\* principal are those of the balance before any prepayment.
C15_PrepaymentOnPostScheduleBalance ==
    CorporatePriced =>
        \A i \in 1..Len(bondCall.flows.rows) :
            LET row == bondCall.flows.rows[i]
            IN  /\ row.scheduled = ScheduledFromOpening(i)
                /\ row.interest = RMul(RMul(row.opening, row.rate), row.accrual)
                /\ row.prepay = RMul(SMM, RSub(row.opening, ScheduledFromOpening(i)))

\* Without prepayment the schedule is the one described.
C15_ScheduleWithoutPrepayment ==
    (CorporatePriced /\ SMM = RZero) =>
        \A i \in 1..Len(bondCall.flows.rows) :
            LET row == bondCall.flows.rows[i]
            IN  /\ row.scheduled = ScheduledFromOpening(i)
                /\ row.interest = RMul(RMul(row.opening, row.rate), row.accrual)
                /\ row.prepay = RZero

-----------------------------------------------------------------------------
(* Properties of the sensitivity engine (under SpecSensitivity).           *)

Computed == sensCall.op = "compute" /\ sensCall.out.err = "none"

\* The metric reported for the curve under a key, when that key holds a curve
\* of the class compute looks for.
MetricOf(key) ==
    CASE key = "model" -> "DV01"
      [] key = "foreign_model" -> "DV01_foreign"
      [] key = "forward_model" -> "DV01_forward"
      [] key = "hazard_curve" -> "CS01"
      [] key = "fx_curve" -> "FX_DELTA_1PCT"

CurvePresent(scenario, key) ==
    CASE key \in {"model", "foreign_model"} -> IsZeroCurve(scenario[key])
      [] key = "forward_model" -> IsZeroCurve(scenario[key]) \/ IsForwardCurve(scenario[key])
      [] key = "hazard_curve" -> IsHazardCurve(scenario[key])
      [] key = "fx_curve" -> IsFXCurve(scenario[key])

KeySet(d) == {d.keys[i] : i \in 1..Len(d.keys)}

C17_ProductsSumToPortfolio ==
    Computed =>
        LET out == sensCall.out
            ps == sensCall.products
            entry(i, m) ==
                RDiv(RSub(present_value(ps[i], m.shocked).val,
                          present_value(ps[i], sensCall.base).val), m.bump_size)
        IN  \A n \in 1..Len(out.metrics) :
                LET m == out.metrics[n]
                IN  m.bump_size # RZero =>
                        /\ \A i \in 1..Len(ps) :
                               /\ Has(out.product_sensitivities, KeyOfPosition(i - 1, ps[i].cls))
                               /\ Has(Get(out.product_sensitivities,
                                          KeyOfPosition(i - 1, ps[i].cls)), m.name)
                               /\ Get(Get(out.product_sensitivities,
                                          KeyOfPosition(i - 1, ps[i].cls)), m.name) = entry(i, m)
                        /\ Has(out.portfolio_sensitivities, m.name)
                        /\ Get(out.portfolio_sensitivities, m.name)
                               = RSum([i \in 1..Len(ps) |-> entry(i, m)])
                        /\ Len(out.product_sensitivities.keys) = Len(ps)

\* Four products, two of one class, with non-zero DV01, CS01 and FX delta.
C17_Witness ==
    /\ Computed
    /\ Len(sensCall.products) = 4
    /\ \A name \in {"DV01", "CS01", "FX_DELTA_1PCT"} :
           /\ Has(sensCall.out.portfolio_sensitivities, name)
           /\ Get(sensCall.out.portfolio_sensitivities, name) # RZero

-----------------------------------------------------------------------------
(* Properties of the CSA discounting engine (under SpecCSA).               *)

CSAValued == csaCall.op = "value" /\ csaCall.out.err = "none"

\* The scenario's primary model together with every other key of its data.
PrimaryData(scenario) == scenario_data([scenario EXCEPT !.data.model = Missing])

\* Product idx is mapped to a netting set that has a configuration.
Configured(idx) ==
    /\ Has(csaCall.product_to_netting_set, idx)
    /\ Has(csaCall.csa_configs, Get(csaCall.product_to_netting_set, idx))

\* The PVs the engine is to report for product i (position i - 1) under a scenario.
UnsecuredOf(scenario, i) == present_value(csaCall.products[i], PrimaryData(scenario)).val
SecuredOf(scenario, i) ==
    IF Configured(i - 1)
    THEN present_value(csaCall.products[i],
            [PrimaryData(scenario) EXCEPT !.model =
                Get(csaCall.csa_configs,
                    Get(csaCall.product_to_netting_set, i - 1)).discount_model]).val
    ELSE UnsecuredOf(scenario, i)

\* Every scenario's per-product PVs, totals and per-netting-set totals are the
\* ones described.
DiscountedAsConfigured ==
    \A n \in 1..Len(csaCall.scenarios) :
        LET scenario == csaCall.scenarios[n]
            count == Len(csaCall.products)
            r == Get(csaCall.out.results, scenario.name)
        IN  /\ \A i \in 1..count :
                   /\ csaCall.out.rows[n][i].unsecured_pv = UnsecuredOf(scenario, i)
                   /\ csaCall.out.rows[n][i].secured_pv = SecuredOf(scenario, i)
            /\ r.unsecured_pv = RSum([i \in 1..count |-> UnsecuredOf(scenario, i)])
            /\ r.secured_pv = RSum([i \in 1..count |-> SecuredOf(scenario, i)])
            /\ r.netting_set_secured_pv.keys = csaCall.csa_configs.keys
            /\ \A k \in 1..Len(csaCall.csa_configs.keys) :
                   r.netting_set_secured_pv.vals[k]
                       = RSum([i \in 1..count |->
                                  IF /\ Configured(i - 1)
                                     /\ Get(csaCall.product_to_netting_set, i - 1)
                                            = csaCall.csa_configs.keys[k]
                                  THEN SecuredOf(scenario, i) ELSE RZero])

\* C18: for every scenario and product the unsecured PV is computed with the
\* scenario's primary model; the secured PV with the netting set's discount
\* model in place of 'model' and all other keys unchanged iff the product's
\* index is mapped to a configured netting set, and is the unsecured PV
\* otherwise; one product's substitution leaves the others' PVs alone; the
\* totals are the sums over products, per netting set the sums of its
\* products' secured PVs (zero for a configured set without products).
C18_SecuredAndUnsecured == CSAValued => DiscountedAsConfigured

\* The same for scenarios whose data holds no 'model' entry of its own.
C18_WhenDataHasNoModel ==
    (/\ CSAValued
     /\ \A n \in 1..Len(csaCall.scenarios) : csaCall.scenarios[n].data.model = Missing)
        => DiscountedAsConfigured

\* Two scenarios, three products, two of them in different configured netting
\* sets whose curves change their PVs.
C18_ConfiguredReached ==
    /\ CSAValued
    /\ Len(csaCall.scenarios) = 2
    /\ Len(csaCall.products) = 3
    /\ Len(csaCall.csa_configs.keys) = 2
    /\ \A n \in 1..2 : csaCall.scenarios[n].data.model = Missing
    /\ \A n \in 1..2 :
           Get(csaCall.out.results, csaCall.scenarios[n].name).secured_pv
               # Get(csaCall.out.results, csaCall.scenarios[n].name).unsecured_pv

-----------------------------------------------------------------------------
(* Properties of the scenario generators (under SpecGenerators).           *)

Generated == genCall.op # "none"

\* The signed value of a shift of whole or tenth basis points, written out.
SignedBps(x) ==
    LET whole == RFloor(RAbs(x))
        tenths == RFloor(RMul(RSub(RAbs(x), RInt(whole)), RInt(10)))
    IN  (IF RLt(x, RZero) THEN "-" ELSE "+") \o ToString(whole)
            \o (IF tenths = 0 THEN "" ELSE "." \o ToString(tenths))

\* Scenario k of the call carries the base tenors and the base zero rates
\* raised by shifts_bps[k] / 10000, in arrays of its own.
ParallelCurve(k) ==
    LET m == genCall.out.scenarios[k].model
        a == genCall.out.arrays[k]
    IN  /\ m.kind = "zero_curve"
        /\ m.tenors = genCall.base_curve.tenors
        /\ Len(m.values) = Len(genCall.base_curve.values)
        /\ \A i \in 1..Len(m.values) :
               m.values[i] = RAdd(genCall.base_curve.values[i],
                                  RDiv(genCall.shifts_bps[k], RInt(10000)))
        /\ {a.tenors, a.zero_rates} \cap {BaseArrays.tenors, BaseArrays.zero_rates} = {}
        /\ \A j \in 1..Len(genCall.shifts_bps) :
               j # k => {a.tenors, a.zero_rates}
                            \cap {genCall.out.arrays[j].tenors, genCall.out.arrays[j].zero_rates} = {}

\* The scenarios of a call, whatever their names: one per shift in list
\* order, the base curve as it was, and after them one twisted curve on the
\* base tenors per twist entry.
ScenariosPerEntry ==
    /\ genCall.out.base_curve = genCall.base_curve
    /\ \A k \in 1..Len(genCall.shifts_bps) : ParallelCurve(k)
    /\ genCall.op = "parallel" => Len(genCall.out.scenarios) = Len(genCall.shifts_bps)
    /\ genCall.op = "stress" =>
           /\ Len(genCall.out.scenarios)
                  = Len(genCall.shifts_bps) + Len(genCall.twist_shifts_bps)
           /\ \A k \in 1..Len(genCall.twist_shifts_bps) :
                  LET s == genCall.out.scenarios[Len(genCall.shifts_bps) + k]
                  IN  /\ s.model.tenors = genCall.base_curve.tenors
                      /\ s.name = "twist_" \o format_signed_0f(genCall.twist_shifts_bps[k])
                                      \o "bps_pivot_" \o format_g(genCall.twist_pivot_year) \o "y"

\* C19: generate returns one scenario per entry of shifts_bps in list order,
\* each a fresh curve on the base tenors with every zero rate raised by
\* shifts_bps[k] / 10000 and named "parallel_shift_" + the signed bps value +
\* "bps"; the base curve is unchanged; the stress generator returns these
\* followed by one twist scenario per twist entry.
C19_OneScenarioPerShift ==
    Generated =>
        /\ ScenariosPerEntry
        /\ \A k \in 1..Len(genCall.shifts_bps) :
               genCall.out.scenarios[k].name
                   = "parallel_shift_" \o SignedBps(genCall.shifts_bps[k]) \o "bps"

\* C19, with the name the code writes: the sign and the value rounded to a
\* whole number of basis points.
C19_NameHoldsRoundedBps ==
    Generated =>
        /\ ScenariosPerEntry
        /\ \A k \in 1..Len(genCall.shifts_bps) :
               genCall.out.scenarios[k].name
                   = "parallel_shift_" \o format_signed_0f(genCall.shifts_bps[k]) \o "bps"

\* A stress call with parallel and twist entries has been made.
C19_StressReached ==
    /\ genCall.op = "stress"
    /\ Len(genCall.shifts_bps) > 0
    /\ Len(genCall.twist_shifts_bps) > 0

TwistOf(k) == genCall.out.scenarios[Len(genCall.shifts_bps) + k]

\* twist_bps / 10000 * clip((tenor - pivot) / max_span, -1, 1) at node i
NodeTwist(k, i) ==
    LET tenors == genCall.base_curve.tenors
        pivot == genCall.twist_pivot_year
    IN  RMul(RDiv(genCall.twist_shifts_bps[k], RInt(10000)),
             clip(RDiv(RSub(tenors[i], pivot), max_span(tenors, pivot)), RInt(-1), ROne))

NodesTwisted(k) ==
    \A i \in 1..Len(genCall.base_curve.tenors) :
        TwistOf(k).model.values[i] = RAdd(genCall.base_curve.values[i], NodeTwist(k, i))

PivotLevelKept(k) ==
    interp_zero_rate(TwistOf(k).model, genCall.twist_pivot_year)
        = interp_zero_rate(genCall.base_curve, genCall.twist_pivot_year)

PivotInsideCurve ==
    /\ RLe(genCall.base_curve.tenors[1], genCall.twist_pivot_year)
    /\ RLe(genCall.twist_pivot_year,
           genCall.base_curve.tenors[Len(genCall.base_curve.tenors)])

\* C20: in every twist scenario each node moves by twist_bps / 10000 *
\* clip((tenor - pivot) / max_span, -1, 1) and the zero rate at the pivot
\* tenor is the base curve's, for every base curve and every pivot.
C20_PivotLevelKeptForEveryPivot ==
    genCall.op = "stress" =>
        \A k \in 1..Len(genCall.twist_shifts_bps) : NodesTwisted(k) /\ PivotLevelKept(k)

\* C20, amended: the node shifts are as stated for every pivot; the zero rate
\* at the pivot tenor is the base curve's when the pivot lies within the
\* curve's tenors, first and last node included.
C20_PivotLevelKeptInsideCurve ==
    genCall.op = "stress" =>
        \A k \in 1..Len(genCall.twist_shifts_bps) :
            /\ NodesTwisted(k)
            /\ PivotInsideCurve => PivotLevelKept(k)

\* A nonzero twist about a pivot strictly between two nodes has been generated.
C20_TwistBetweenNodes ==
    /\ genCall.op = "stress"
    /\ PivotInsideCurve
    /\ \A i \in 1..Len(genCall.base_curve.tenors) :
           genCall.base_curve.tenors[i] # genCall.twist_pivot_year
    /\ \E k \in 1..Len(genCall.twist_shifts_bps) :
           /\ genCall.twist_shifts_bps[k] # RZero
           /\ TwistOf(k).model.values # genCall.base_curve.values

-----------------------------------------------------------------------------
(* Properties of the root finders (under SpecSolver, and under             *)
(* SpecSolverLive for what they eventually do).                            *)

SolverCalled == solver.pc # "idle"
SolverReturned == solver.pc = "done" /\ solver.result.err = "none"
SolverCap == BracketCap(solver_in_ln2_units(solver.kind, solver.compounding))

\* C24: yield_to_maturity and option_adjusted_spread always terminate, for
\* every target and every lower/upper bracket: a call that was made ends,
\* with a value or with an error.
C24_SolversTerminate == SolverCalled ~> (solver.pc = "done")

\* C24, for brackets with a positive upper end: the call ends.
C24_TerminatesWhenUpperPositive ==
    (SolverCalled /\ RLt(RZero, solver.upper)) ~> (solver.pc = "done")

\* The bisection loop makes at most max_iter passes.
C24_BisectionCapped == SolverCalled => solver.iter <= solver.max_iter

\* A call widens its bracket without ever changing it.
C24_WideningInPlace ==
    /\ solver.pc = "widen"
    /\ KeepsWidening(solver)
    /\ widened_hi = solver.hi
    /\ solver.widenings = 1

\* C25: during the bracket search hi never exceeds 5.0 and the price is never
\* evaluated above 5.0; with no sign change within the bound the solver
\* raises; a returned root lies in the final bracket [lower, hi].
C25_BracketWithinCap ==
    SolverCalled =>
        /\ RLe(solver.hi, SolverCap)
        /\ \A x \in solver.evaluated : RLe(x, SolverCap)
        /\ (solver.pc = "done" /\ solver.evaluated # {}
                /\ ProductSign(solver.f_lo, solver.f_hi) > 0)
               => solver.result.err = "ValueError"
        /\ SolverReturned =>
               /\ RLe(RMin(solver.lower, solver.hi), solver.result.val)
               /\ RLe(solver.result.val, RMax(solver.lower, solver.hi))

\* C25 with the bound the loop keeps: a hi other than the caller's upper is
\* 1.5 times a value below 5.0, so below 7.5.
C25_BracketWithinOvershoot ==
    SolverCalled =>
        /\ solver.hi = solver.upper \/ RLt(solver.hi, RMul(Rat(3, 2), SolverCap))
        /\ \A x \in solver.evaluated :
               RLe(x, RMax(solver.upper, solver.lower)) \/ RLt(x, RMul(Rat(3, 2), SolverCap))
        /\ (solver.pc = "done" /\ solver.evaluated # {}
                /\ ProductSign(solver.f_lo, solver.f_hi) > 0)
               => solver.result.err = "ValueError"
        /\ SolverReturned =>
               /\ RLe(RMin(solver.lower, solver.hi), solver.result.val)
               /\ RLe(solver.result.val, RMax(solver.lower, solver.hi))

\* yield_to_maturity, called with its default bracket, has widened it past 5.0.
C25_DefaultBracketOvershoots ==
    /\ solver.kind = "ytm"
    /\ solver.lower = DefaultLower /\ solver.upper = DefaultUpper
    /\ RLt(SolverCap, solver.hi)

-----------------------------------------------------------------------------
(* Properties of the callable bond's lattice (under SpecLattice).          *)

LatticePriced == bondCall.op = "price_with_oas" /\ bondCall.price.err = "none"

\* The call price that applies at the coupon date t_pay, as the lattice
\* reads it from the schedule.
CallPriceAt(b, t_pay) == Get(call_map_loop(b.call_schedule, Len(b.call_schedule)), t_pay)
IsCallDate(b, t_pay) == \E e \in 1..Len(b.call_schedule) : b.call_schedule[e][1] = t_pay

\* The value of holding on at node (i, j): the discounted mean of the two
\* nodes after it plus the coupon; and the discounted call price plus coupon.
NodeDiscount(i, j) ==
    LET b == bondCall.product
        sigma == RMax(b.short_rate_volatility, RZero)
    IN  ExpNeg(RAdd(RAdd(interp_zero_rate(bondCall.scenario.model, RInt(i)),
                         RMul(RInt(2 * j - i), sigma)), bondCall.oas))
NodeCoupon == RMul(bondCall.product.notional, bondCall.product.coupon_rate)
Continuation(i, j) ==
    RMul(NodeDiscount(i, j),
         RAdd(RMul(Half, RAdd(bondCall.lattice[i + 2][j + 1], bondCall.lattice[i + 2][j + 2])),
              NodeCoupon))
CalledValue(i, j) ==
    RMul(NodeDiscount(i, j), RAdd(CallPriceAt(bondCall.product, RInt(i + 1)), NodeCoupon))

\* C28: the callable bond's price is at most the price of the same bond with
\* an empty call schedule; a further call date never increases the price; and
\* at every node whose period ends on a call date the value is the minimum of
\* the continuation value and the discounted call price plus coupon.
C28_CallNeverAddsValue ==
    LatticePriced =>
        /\ RLe(bondCall.price.val, bondCall.plain.val)
        /\ RLe(bondCall.more.val, bondCall.price.val)
        /\ bondCall.price.val = bondCall.lattice[1][1]
        /\ \A i \in 0..(Len(bondCall.lattice) - 2) : \A j \in 0..i :
               bondCall.lattice[i + 1][j + 1] =
                   IF IsCallDate(bondCall.product, RInt(i + 1))
                   THEN RMin(Continuation(i, j), CalledValue(i, j))
                   ELSE Continuation(i, j)

\* A bond whose call is exercised at some node, and whose further call date
\* lowers the price again.
C28_CallExercisedSomewhere ==
    /\ LatticePriced
    /\ RLt(bondCall.price.val, bondCall.plain.val)
    /\ RLt(bondCall.more.val, bondCall.price.val)
    /\ \E i \in 0..(Len(bondCall.lattice) - 2) : \E j \in 0..i :
           /\ IsCallDate(bondCall.product, RInt(i + 1))
           /\ RLt(CalledValue(i, j), Continuation(i, j))

-----------------------------------------------------------------------------
(* Properties of the cross-currency swap's resets (under SpecSwapLegs).    *)

LegsReturned == swapCall.op = "leg_cashflows" /\ swapCall.legs.err = "none"

\* The number of foreign-leg periods, the i-th period date, the FX level at a
\* date, and the foreign notional in force after the reset at period date i.
ForeignPeriods == PeriodCount(swapCall.product.maturity_years, swapCall.product.foreign_frequency)
PeriodDate(i) == Rat(i, swapCall.product.foreign_frequency)
FXAt(t) == fx_forward(swapCall.scenario.fx_curve, t)
ResetNotional(i) == RDiv(swapCall.product.domestic_notional, FXAt(PeriodDate(i)))
PaySide == IF swapCall.product.pay_domestic_receive_foreign THEN ROne ELSE RNeg(ROne)

\* C27: a mark-to-market swap with notional exchange and n foreign periods has
\* n - 1 reset cashflows, at the period dates 1..n-1, each the change of the
\* foreign notional domestic_notional / FX(t_i) times FX(t_i), signed by the
\* side (the notional before the first reset being domestic_notional / FX(0));
\* the final exchange uses the last reset notional; without mark_to_market
\* there is no reset cashflow; net_cashflows is the concatenation of the
\* notional-exchange, domestic, foreign and reset cashflows.
C27_ResetCashflows ==
    LegsReturned =>
        LET p == swapCall.product
            legs == swapCall.legs
            n == ForeignPeriods
            reset == legs.reset_exchange_cashflows
        IN  /\ (p.mark_to_market /\ p.exchange_notionals /\ n >= 1) =>
                /\ Len(reset) = n - 1
                /\ \A i \in 1..(n - 1) :
                       /\ reset[i].time = PeriodDate(i)
                       /\ reset[i].amount =
                              RMul(PaySide, RMul(RSub(ResetNotional(i), ResetNotional(i - 1)),
                                                 FXAt(PeriodDate(i))))
                /\ Len(legs.notional_exchange_cashflows) = 4
                /\ legs.notional_exchange_cashflows[4] =
                       Cashflow(p.maturity_years,
                                RMul(RNeg(PaySide), RMul(ResetNotional(n - 1), FXAt(p.maturity_years))))
            /\ ~p.mark_to_market => reset = <<>>
            /\ legs.net_cashflows =
                   legs.notional_exchange_cashflows \o legs.domestic_leg_cashflows
                       \o legs.foreign_leg_cashflows \o reset

\* A swap of three or more foreign periods was reset at two dates by
\* different amounts, neither of them zero.
C27_TwoResets ==
    /\ LegsReturned
    /\ swapCall.product.mark_to_market /\ swapCall.product.exchange_notionals
    /\ Len(swapCall.legs.reset_exchange_cashflows) >= 2
    /\ swapCall.legs.reset_exchange_cashflows[1].amount # RZero
    /\ swapCall.legs.reset_exchange_cashflows[2].amount
           # swapCall.legs.reset_exchange_cashflows[1].amount
    /\ Len(swapCall.legs.foreign_leg_cashflows) >= 3

-----------------------------------------------------------------------------
(* Properties of the mortgage schedules.                                   *)

\* A schedule of a German loan or of the generator was computed.
ScheduleComputed == mortCall.op \in {"german", "generator"} /\ mortCall.err = "none"

\* The rows of the schedule that are payment periods: the generator's last
\* row may be the residual paid at maturity.
ScheduledPeriods ==
    MonthsToPeriods(mortCall.loan.maturity_years, FREQ_TO_MONTHS(mortCall.loan.payment_frequency))
PeriodRows == {k \in 1..Len(mortCall.rows) : mortCall.rows[k].period_index <= ScheduledPeriods}

\* The calendar month period i starts in.
CalendarMonth(start_month, months_per_period, i) ==
    (((start_month - 1) + (i - 1) * months_per_period) % 12) + 1

\* The rows in which the prepayment model was asked for a CPR.
ModelAsked == {k \in PeriodRows : mortCall.rows[k].month # 0}

\* C29: the month index handed to the prepayment model for period i is in
\* 1..12 and is the calendar month period i starts in: start_month advanced
\* by the months of a payment period for each later period, wrapped at 12.
C29_MonthIsCalendarMonth ==
    ScheduleComputed =>
        \A k \in ModelAsked :
            /\ mortCall.rows[k].month \in 1..12
            /\ mortCall.rows[k].month =
                   CalendarMonth(mortCall.loan.start_month,
                                 FREQ_TO_MONTHS(mortCall.loan.payment_frequency),
                                 mortCall.rows[k].period_index)

\* The month handed over is always in 1..12.
C29_MonthInRange ==
    ScheduleComputed => \A k \in ModelAsked : mortCall.rows[k].month \in 1..12

\* What the code hands over: start_month advanced by one month per period,
\* whatever the payment frequency.
C29_MonthAdvancesByOne ==
    ScheduleComputed =>
        \A k \in ModelAsked :
            mortCall.rows[k].month =
                CalendarMonth(mortCall.loan.start_month, 1, mortCall.rows[k].period_index)

\* A quarterly or annual schedule whose second period asked the model.
C29_LaterPeriodOfLongerFrequency ==
    /\ ScheduleComputed
    /\ mortCall.loan.payment_frequency \in {"quarterly", "annual"}
    /\ \E k \in ModelAsked : mortCall.rows[k].period_index >= 2

\* The balance left after scheduled principal in row k.
PostSchedule(k) ==
    RSub(mortCall.rows[k].begin_balance, mortCall.rows[k].scheduled_principal)

\* C26: in every period of a mortgage schedule, scheduled principal is at
\* most the opening balance, prepayment is computed on the balance left after
\* scheduled principal and is at most that balance, and the closing balance
\* is at least 0, at most the opening balance, and opens the next period.
C26_BalanceNeverNegativeNorIncreasing ==
    ScheduleComputed =>
        \A k \in 1..Len(mortCall.rows) :
            /\ RLe(mortCall.rows[k].scheduled_principal, mortCall.rows[k].begin_balance)
            /\ mortCall.rows[k].prepayment =
                   RMin(PostSchedule(k), RMul(PostSchedule(k), mortCall.rows[k].smm))
            /\ RLe(mortCall.rows[k].prepayment, PostSchedule(k))
            /\ RLe(RZero, mortCall.rows[k].end_balance)
            /\ RLe(mortCall.rows[k].end_balance, mortCall.rows[k].begin_balance)
            /\ k > 1 => RLe(mortCall.rows[k].begin_balance, mortCall.rows[k - 1].end_balance)

\* A German loan's period with scheduled principal in which the model's rate
\* exceeded the balance and the prepayment was cut to what was left.
C26_PrepaymentCapped ==
    /\ ScheduleComputed
    /\ mortCall.op = "german"
    /\ \E k \in 1..Len(mortCall.rows) :
          /\ RLt(ROne, mortCall.rows[k].smm)
          /\ RLt(RZero, mortCall.rows[k].scheduled_principal)
          /\ RLt(RZero, mortCall.rows[k].prepayment)
          /\ mortCall.rows[k].prepayment = PostSchedule(k)

\* C23: for the same loan parameters and an equivalent prepayment model,
\* IntegratedMortgageLoan and IntegratedGermanFixedRateMortgageLoan return
\* the cashflows (count, times, amounts) and the PV of
\* GermanFixedRateMortgageLoan, and raise where it raises.
C23_IntegratedMatchesGerman ==
    mortCall.op = "parity" =>
        /\ mortCall.integrated.err = mortCall.german.err
        /\ mortCall.integrated.cfs = mortCall.german.cfs
        /\ mortCall.wrapper.err = mortCall.german.err
        /\ mortCall.wrapper.cfs = mortCall.german.cfs
        /\ mortCall.integratedPV = mortCall.germanPV
        /\ mortCall.wrapperPV = mortCall.germanPV

\* A loan with interest-only periods and a clean-room behavioural model,
\* valued on a curve with non-zero rates, that was prepaid in full before
\* its last period.
C23_ParityUnderPrepayment ==
    /\ mortCall.op = "parity"
    /\ mortCall.german.err = "none"
    /\ mortCall.prepayment_model # NoneObj
    /\ mortCall.prepayment_model.cls = "CleanRoomBehaviouralPrepayment"
    /\ RLt(RZero, mortCall.loan.interest_only_years)
    /\ RLt(RZero, mortCall.loan.fixed_rate)
    /\ Len(mortCall.german.cfs) >= 2
    /\ Len(mortCall.german.cfs) < ScheduledPeriods
    /\ mortCall.germanPV.err = "none"
    /\ RLt(mortCall.germanPV.val,
           RSum([k \in 1..Len(mortCall.german.cfs) |-> mortCall.german.cfs[k].amount]))

\* The principal a corporate bond's rows pay, with the balance left after
\* the last one.
CorporatePrincipal ==
    RAdd(RSum([k \in 1..Len(mortCall.rows) |->
                  RAdd(mortCall.rows[k].prepay, mortCall.rows[k].scheduled)]),
         mortCall.rows[Len(mortCall.rows)].closing)

\* The principal a mortgage schedule's payment periods pay, with the balance
\* left after the last one.
MortgagePrincipal ==
    LET periodRows == SubSeq(mortCall.rows, 1, Cardinality(PeriodRows))
    IN  RAdd(RSum([k \in 1..Len(periodRows) |->
                      RAdd(periodRows[k].scheduled_principal, periodRows[k].prepayment)]),
             IF periodRows = <<>> THEN mortCall.loan.notional
             ELSE periodRows[Len(periodRows)].end_balance)

CashflowTotal == RSum([k \in 1..Len(mortCall.cfs) |-> mortCall.cfs[k].amount])

\* Each generator row in ks closes at its opening balance less scheduled
\* principal and prepayment, and the next row opens there.
RowsChain(ks) ==
    \A k \in ks :
        /\ mortCall.rows[k].end_balance = RSub(PostSchedule(k), mortCall.rows[k].prepayment)
        /\ k < Len(mortCall.rows) =>
               mortCall.rows[k + 1].begin_balance = mortCall.rows[k].end_balance

\* C30: in every amortizing schedule of a CorporateBond and of the mortgage
\* generators the balance is never negative, scheduled principal,
\* prepayments and the residual paid at maturity add up to the notional, with
\* a zero coupon rate the cashflows sum to the notional, and every generator
\* row closes at its opening balance less scheduled principal and prepayment,
\* where the next row opens.
C30_PrincipalConserved ==
    /\ mortCall.op = "corporate" /\ mortCall.err = "none" =>
           /\ \A k \in 1..Len(mortCall.rows) : RLe(RZero, mortCall.rows[k].closing)
           /\ CorporatePrincipal = mortCall.loan.notional
           /\ mortCall.loan.fixed_rate = RZero => CashflowTotal = mortCall.loan.notional
    /\ ScheduleComputed =>
           /\ \A k \in 1..Len(mortCall.rows) : RLe(RZero, mortCall.rows[k].end_balance)
           /\ MortgagePrincipal = mortCall.loan.notional
           /\ mortCall.loan.fixed_rate = RZero => CashflowTotal = mortCall.loan.notional
    /\ ScheduleComputed /\ mortCall.op = "generator" => RowsChain(1..Len(mortCall.rows))

\* The rate a corporate bond prepays at in a period.
CorporatePrepaymentRate == prepayment_rate(mortCall.loan, FREQ_TO_YEARS(mortCall.loan.frequency))

\* With a prepayment rate of at most the whole balance, a corporate bond's
\* principal is conserved.
C30_ConservedUpToFullPrepayment ==
    mortCall.op = "corporate" /\ mortCall.err = "none" /\ RLe(CorporatePrepaymentRate, ROne) =>
        /\ \A k \in 1..Len(mortCall.rows) : RLe(RZero, mortCall.rows[k].closing)
        /\ CorporatePrincipal = mortCall.loan.notional
        /\ mortCall.loan.fixed_rate = RZero => CashflowTotal = mortCall.loan.notional

\* The mortgage schedules conserve principal, and the generator's rows chain
\* over the payment periods.
C30_MortgageConserved ==
    ScheduleComputed =>
        /\ \A k \in 1..Len(mortCall.rows) : RLe(RZero, mortCall.rows[k].end_balance)
        /\ MortgagePrincipal = mortCall.loan.notional
        /\ mortCall.loan.fixed_rate = RZero => CashflowTotal = mortCall.loan.notional
        /\ mortCall.op = "generator" => RowsChain(PeriodRows)

\* A corporate bond prepaying more than its balance pays out more than its
\* notional.
C30_PrepaidBeyondBalance ==
    /\ mortCall.op = "corporate" /\ mortCall.err = "none"
    /\ RLt(ROne, CorporatePrepaymentRate)
    /\ RLt(mortCall.loan.notional, CorporatePrincipal)

\* A generator schedule ending in a residual row.
C30_ResidualRow ==
    /\ ScheduleComputed /\ mortCall.op = "generator"
    /\ Len(mortCall.rows) > Cardinality(PeriodRows)
    /\ ~RowsChain(1..Len(mortCall.rows))

-----------------------------------------------------------------------------
(* Properties of the Hull-White simulation and its scenario generator.     *)

\* Calls i and j were made with the same model, horizon, steps, paths and
\* explicit seed.
SameSeededCall(i, j) ==
    /\ hwCall.calls[i].seed # NoSeed
    /\ hwCall.calls[i].seed = hwCall.calls[j].seed
    /\ hwCall.calls[i].model = hwCall.calls[j].model
    /\ hwCall.calls[i].horizon_years = hwCall.calls[j].horizon_years
    /\ hwCall.calls[i].n_steps = hwCall.calls[j].n_steps
    /\ hwCall.calls[i].n_paths = hwCall.calls[j].n_paths

\* C22: two calls of simulate_short_rate_paths with the same model, horizon,
\* n_steps, n_paths and explicit seed return the same matrix, whatever
\* simulations ran between them; a matrix has n_paths rows of n_steps + 1
\* rates, the first of them the initial short rate.
C22_SeededSimulationsRepeat ==
    hwCall.op = "simulate" =>
        /\ \A i, j \in 1..Len(hwCall.calls) :
               SameSeededCall(i, j) =>
                   /\ hwCall.calls[i].err = hwCall.calls[j].err
                   /\ hwCall.calls[i].rates = hwCall.calls[j].rates
        /\ \A i \in 1..Len(hwCall.calls) :
               hwCall.calls[i].err = "none" =>
                   /\ Len(hwCall.calls[i].rates) = hwCall.calls[i].n_paths
                   /\ \A p \in 1..Len(hwCall.calls[i].rates) :
                          /\ Len(hwCall.calls[i].rates[p]) = hwCall.calls[i].n_steps + 1
                          /\ hwCall.calls[i].rates[p][1] =
                                 HullWhiteModel_short_rate(hwCall.calls[i].model, RZero).val

\* A seeded simulation of two paths that part, repeated after a simulation
\* with another seed that returned other rates.
C22_RepeatedAfterAnother ==
    /\ hwCall.op = "simulate"
    /\ Len(hwCall.calls) = 3
    /\ SameSeededCall(1, 3)
    /\ hwCall.calls[1].err = "none"
    /\ hwCall.calls[1].n_steps = MaxSteps
    /\ hwCall.calls[1].rates[1] # hwCall.calls[1].rates[2]
    /\ hwCall.calls[2].model = hwCall.calls[1].model
    /\ hwCall.calls[2].n_steps = hwCall.calls[1].n_steps
    /\ hwCall.calls[2].seed \notin {NoSeed, hwCall.calls[1].seed}
    /\ hwCall.calls[2].rates # hwCall.calls[1].rates

\* The names of the first scenarios of a Monte Carlo run.
PathNames == <<"hw_mc_path_0000", "hw_mc_path_0001", "hw_mc_path_0002">>

\* The shift of scenario k: the last rate of path k less the model's short
\* rate at time 0.
TerminalShift(k) ==
    RSub(hwCall.paths.rates[k][hwCall.generator.n_steps + 1],
         short_rate(hwCall.generator.model.initial_curve, RZero).val)

\* C21: generate returns n_paths scenarios named hw_mc_path_0000,
\* hw_mc_path_0001, ... in path order; scenario k carries the base curve's
\* tenors and every base zero rate shifted by the terminal rate of path k
\* less the model's short rate at time 0, and nothing else of the path.
C21_TerminalShiftScenarios ==
    hwCall.op = "generate" /\ hwCall.err = "none" =>
        /\ Len(hwCall.scenarios) = hwCall.generator.n_paths
        /\ \A k \in 1..Len(hwCall.scenarios) :
               /\ hwCall.scenarios[k].name = PathNames[k]
               /\ hwCall.scenarios[k].model.kind = "zero_curve"
               /\ hwCall.scenarios[k].model.tenors = hwCall.generator.base_curve.tenors
               /\ Len(hwCall.scenarios[k].model.values)
                      = Len(hwCall.generator.base_curve.values)
               /\ \A j \in 1..Len(hwCall.generator.base_curve.values) :
                      hwCall.scenarios[k].model.values[j] =
                          RAdd(hwCall.generator.base_curve.values[j], TerminalShift(k))

\* A run of two paths over two steps on a base curve that is not the model's
\* curve, in which a path's rate after the first step is neither its last
\* rate nor the initial one, and the two scenarios differ.
C21_PathsThatTurn ==
    /\ hwCall.op = "generate" /\ hwCall.err = "none"
    /\ hwCall.generator.n_steps = 2
    /\ Len(hwCall.scenarios) = 2
    /\ hwCall.generator.base_curve # hwCall.generator.model.initial_curve
    /\ hwCall.scenarios[1].model # hwCall.scenarios[2].model
    /\ \E k \in 1..2 :
          /\ hwCall.paths.rates[k][2] # hwCall.paths.rates[k][3]
          /\ hwCall.paths.rates[k][2] # hwCall.paths.rates[k][1]
          /\ TerminalShift(k) # RZero

-----------------------------------------------------------------------------
(* Specifications.  Each drives one part of the library; the variables of  *)
(* the other parts stay at their initial values.                           *)

\* Nothing constructed, nothing called.
Init ==
    /\ trade = [cls |-> "None"]
    /\ tradeScn = ScenarioDict(NoneObj, NoneObj, NoneObj, NoneObj)
    /\ tradePV = Unset
    /\ mirrorPV = Unset
    /\ products = <<>>
    /\ scenariosIn = <<>>
    /\ result = NotCalled
    /\ contributions = NotCalled
    /\ grouped = NotCalled
    /\ risk = NoRisk
    /\ curveIn = [kind |-> "None"]
    /\ curve = [err |-> "unset", obj |-> NoneObj]
    /\ dfProbe = NoProbe
    /\ quotes = [deposits |-> <<>>, swaps |-> <<>>, interpolation |-> "linear_zero"]
    /\ boot = [pc |-> "idle"]
    /\ bootReversed = [pc |-> "idle"]
    /\ bondCall = NoCall
    /\ sensCall = NoCall
    /\ csaCall = NoCall
    /\ genCall = NoCall
    /\ solver = IdleSolver
    /\ hwCall = NoCall
    /\ mortCall = NoCall
    /\ swapCall = NoCall

SpecProducts == Init /\ [][NextProducts]_vars
SpecEngine == Init /\ [][NextEngine]_vars
SpecCurve == Init /\ [][NextCurve]_vars
SpecBootstrap == Init /\ [][NextBootstrap]_vars
SpecBonds == Init /\ [][NextBonds]_vars
SpecSensitivity == Init /\ [][NextSensitivity]_vars
SpecCSA == Init /\ [][NextCSA]_vars
SpecGenerators == Init /\ [][NextGenerators]_vars
SpecLattice == Init /\ [][NextLattice]_vars
SpecSwapLegs == Init /\ [][NextSwapLegs]_vars
SpecSolver == Init /\ [][NextSolver]_vars
\* A call that was made keeps running.
SpecSolverLive == SpecSolver /\ WF_vars(SolverContinues)
SpecMortgage == Init /\ [][NextMortgage]_vars
SpecHullWhite == Init /\ [][NextHullWhite]_vars

====
